---- MODULE Spec2Model ----
(***************************************************************************)
(* A model of tanukiup (src/tanukiup/tanukiup.go, the second, proxy-aware  *)
(* revision of the file, lines 390-947): the supervisor loop of Run, the    *)
(* generation tasks it spawns (runGenerator, then startCmd: build, exec),   *)
(* the file event dispatcher, and the Run goroutine itself with its         *)
(* deferred channel closes.                                                 *)
(*                                                                         *)
(* Strings that the code inspects (paths, command tokens, file names) are   *)
(* sequences of one-character strings, so that equality, substring and      *)
(* extension tests are computed and not assumed.                            *)
(***************************************************************************)
EXTENDS Integers, Sequences, FiniteSets, TLC

\* ------------------------------------------------------------------ bounds
\* Generations the supervisor loop may spawn in one run.
MaxGen == 2
\* rand.Uint64() draws range over 0..MaxRand.
MaxRand == 10
\* Argument tokens of a configured command template.
MaxLen == 2
\* Notifications the watcher delivers in one run of the dispatcher (SpecDisp).
MaxEvents == 3
\* Notifications the watcher holds back while the dispatcher is busy.
MaxQueue == 2
\* rand.Uint64() draws of the generations of SpecProxy range over 0..MaxName.
MaxName == 1
\* Entries of args.dirs (SpecWalk).
MaxRoots == 2
\* Lines searchGenerate reads in one walk (SpecScan, SpecGen).
MaxScan == 2

\* ------------------------------------------------------- strings and paths
\* buildOutPathPlaceholder = "{outpath}"
buildOutPathPlaceholder == <<"{", "o", "u", "t", "p", "a", "t", "h", "}">>

\* args.tempDir (os.TempDir() by default)
tempDir == <<"/", "t">>

Digit(d) == <<"0", "1", "2", "3", "4", "5", "6", "7", "8", "9">>[d + 1]

\* A formatting that keeps only the last decimal digit.
FormatUintLastDigit(n) == <<Digit(n % 10)>>

\* strconv.FormatUint(n, 10): the decimal digits of n, most significant first.
RECURSIVE FormatUint(_)
FormatUint(n) ==
    IF n < 10 THEN <<Digit(n)>>
    ELSE FormatUint(n \div 10) \o <<Digit(n % 10)>>

\* filepath.Join(dir, name) for a clean dir and a name without separators.
Join(dir, name) == dir \o <<"/">> \o name

\* outpath := filepath.Join(args.tempDir, fname), fname the formatted draw r.
OutPath(r) == Join(tempDir, FormatUint(r))

\* The configured command templates: vectors of argument tokens.
defaultBuildCommand ==
    <<<<"g", "o">>, <<"b", "u", "i", "l", "d">>, <<"-", "o">>,
      buildOutPathPlaceholder, <<".", "/">>>>
defaultExecCommand == <<buildOutPathPlaceholder>>

\* Tokens a configured template is made of: the placeholder itself, a token
\* that merely contains it ("-o={outpath}"), and a token without it ("-o").
EmbeddedToken == <<"-", "o", "=">> \o buildOutPathPlaceholder
PlainToken == <<"-", "o">>
Tokens == {buildOutPathPlaceholder, EmbeddedToken, PlainToken}
Templates == UNION {[1..n -> Tokens] : n \in 1..MaxLen}

\* tok contains sub as a substring.
Contains(tok, sub) ==
    \E i \in 1..(Len(tok) - Len(sub) + 1) :
        SubSeq(tok, i, i + Len(sub) - 1) = sub

\* A substitution that also rewrites a token containing the placeholder.
RECURSIVE SubstituteContains(_, _)
SubstituteContains(command, outpath) ==
    IF command = <<>> THEN <<>>
    ELSE <<IF Contains(Head(command), buildOutPathPlaceholder)
             THEN outpath ELSE Head(command)>>
         \o SubstituteContains(Tail(command), outpath)

\* The loops of startCmd over args.buildCommand and args.execCommand: append
\* outpath for a token equal to the placeholder, the token itself otherwise.
RECURSIVE Substitute(_, _)
Substitute(command, outpath) ==
    IF command = <<>> THEN <<>>
    ELSE <<IF Head(command) = buildOutPathPlaceholder
             THEN outpath ELSE Head(command)>>
         \o Substitute(Tail(command), outpath)

\* filepath.Base(name) for a name without trailing separators: its last
\* element.
Base(name) ==
    LET seps == {i \in 1..Len(name) : name[i] = "/"}
    IN  IF seps = {} THEN name
        ELSE SubSeq(name, (CHOOSE i \in seps : \A j \in seps : j <= i) + 1,
                    Len(name))

\* A socket path that is the output path.
udsPathOfOutput(fname) == Join(tempDir, Base(fname))

\* udsPath(fname, tempDir) = filepath.Join(tempDir, Base(fname)+".sock")
udsPath(fname) == Join(tempDir, Base(fname) \o <<".", "s", "o", "c", "k">>)

\* filepath.Ext(path): the suffix beginning at the final dot of the last
\* element of path; empty when that element has no dot.
Ext(path) ==
    LET dots == {i \in 1..Len(path) :
                    /\ path[i] = "."
                    /\ \A j \in i..Len(path) : path[j] # "/"}
    IN  IF dots = {} THEN <<>>
        ELSE SubSeq(path, CHOOSE i \in dots : \A j \in dots : j <= i, Len(path))

\* ------------------------------------------------------------------ errors
\* The errors a command run can return, by what errors.Is / errors.As see:
\*   "nil"       no error
\*   "canceled"  wraps context.Canceled (the context was done before Start, or
\*               the command exited 0 after its context was cancelled)
\*   "exit1"     wraps *exec.ExitError, the command exited non-zero on its own
\*   "killed"    wraps *exec.ExitError, the process was killed by a signal
\*               (ExitCode() = -1), which is what cancellation does to it
\*   "notfound"  wraps *exec.Error or an OS error: the command did not start
ErrorsIsCanceled(e) == e = "canceled"

ErrorsAsExitError(e) == e \in {"exit1", "killed"}

ExitCode(e) == IF e = "killed" THEN -1 ELSE 1

\* A filter that tests for context.Canceled alone.
FilterOutcomeCanceledOnly(e) ==
    IF ErrorsIsCanceled(e) THEN "swallow" ELSE "report"

\* The condition guarding errChan <- err, evaluated left to right as Go does:
\*   !errors.Is(err, context.Canceled) && !errors.As(err, &exitError) &&
\*       exitError.ExitCode() != -1
\* exitError is a nil *exec.ExitError unless errors.As succeeded, and
\* ExitCode() is promoted from the embedded *os.ProcessState, so evaluating
\* the third operand with a nil exitError dereferences nil: a runtime panic.
FilterOutcome(e) ==
    LET exitError == IF ErrorsAsExitError(e) THEN e ELSE "nilptr"
    IN  IF ErrorsIsCanceled(e) THEN "swallow"
        ELSE IF ErrorsAsExitError(e) THEN "swallow"
        ELSE IF exitError = "nilptr" THEN "panic"
        ELSE IF ExitCode(exitError) # -1 THEN "report"
        ELSE "swallow"

\* ------------------------------------------------------------------ events
\* fsnotify events: a set of operation bits and a file name.
MainGo == <<"m", ".", "g", "o">>
ReadmeMd == <<"R", ".", "m", "d">>
\* A file named "go": no dot, no extension.
NoExt == <<"g", "o">>
\* fsnotify.Op is a bit mask: an event carries one or more operations.
EventOps == {{"Write"}, {"Create"}, {"Remove"}, {"Rename"}, {"Chmod"},
             {"Write", "Chmod"}}
EventNames == {MainGo, ReadmeMd, NoExt}
Events == [op : EventOps, name : EventNames]

\* args.fileExts (defaultFileExts = {".go"}), as the extMap of Run.
extMap == {<<".", "g", "o">>}

Has(e, op) == op \in e.op

\* A test that lets a create pass unnoticed.
QualifiesWriteOnly(e) ==
    /\ Has(e, "Write")
    /\ Ext(e.name) \in extMap

\* The dispatcher's test: a write or a create of a file with a watched extension.
Qualifies(e) ==
    /\ Has(e, "Write") \/ Has(e, "Create")
    /\ Ext(e.name) \in extMap

\* ------------------------------------------------------------------- state
VARIABLES
    ctxDone,        \* the run-level context is cancelled
    runPc,          \* position of the Run goroutine
    subscribed,     \* watcher.Add succeeded for some directory
    restartClosed,  \* close(restartChan) has run
    errClosed,      \* close(errChan) has run
    watcherClosed,  \* watcher.Close() has run
    supPc,          \* position of the supervisor loop
    skipStart,      \* its skipStart flag
    ngen,           \* generations spawned so far
    cur,            \* generation of the current iteration's cmdCtx, 0 if none
    cancelled,      \* generations whose cmdCtx cancel() has been called
    pc,             \* position of each generation task
    ret,            \* what each generation's failing/last command returned
    delivered,      \* generations whose errChan send was received
    fs,             \* generations whose output path exists in tempDir
    dpc,            \* position of the file event dispatcher
    crashed,        \* a goroutine panicked: the process is gone
    lastSignal,     \* the last case the supervisor's select took
    prevSignal,     \* the case it took before that one
    args,           \* args.buildCommand and args.execCommand
    cpc,            \* position in startCmd's sequential prefix (SpecCmd)
    calls,          \* startCmd calls that returned (SpecCmd)
    fname,          \* the draw of the current startCmd call
    prevFname,      \* the draw of the call before it
    buildCommand,   \* the build argument vector of the current call
    execCommand,    \* the exec argument vector of the current call
    evq,            \* notifications the watcher holds for the dispatcher
    produced,       \* notifications the watcher has accepted so far
    emitted,        \* times the dispatcher reached restartChan <- struct{}{}
    spawns,        \* generation tasks the supervisor loop has spawned
    burst,          \* two qualifying notifications were outstanding at once
    routePaths,     \* the route list the proxy's router was built from
    catchAllTarget, \* args.catchAllTarget, "" when not configured
    request,        \* the last request the proxy's handler was given
    answer,         \* what the handler did with it
    addr,           \* args.addr, "" when tanukiup is not a proxy
    disableTanukiupProxy, \* the child passes WithDisableTanukiupProxy()
    fnames,         \* the draw that names each generation
    up,             \* startCmd's local `up` of each generation, <<>> if unset
    dial,           \* the path the proxy's transport dials, <<>> if no proxy
    env,            \* ecmd.Env of each generation
    px,             \* position of each generation's proxy
    ready,          \* a matching event waits in the readiness watcher
    shut,           \* server.Shutdown of the generation's proxy was called
    pfail,          \* what failed in the generation's proxy setup
    child,          \* what the child's ListenAndServe listens on
    created,        \* socket paths that children have bound
    baseDir,        \* args.baseDir
    dirs,           \* args.dirs
    ignoreDirs,     \* args.ignoreDirs
    wpc,            \* position of Run in its loop over args.dirs
    wi,             \* index of the entry of args.dirs at hand
    stack,          \* directories filepath.WalkDir has still to enter
    watched,        \* directories added to the watcher
    scanned,        \* files given to searchGenerate
    visited,        \* <<i, p>>: walkDirFunc ran on p in the walk of dirs[i]
    pending,        \* lines of .go files searchGenerate has still to read
    lastScan,       \* the line its loop read last, and what became of it
    enabledGenerator, \* the registry: a map from String() to generatorInfo
    registered,     \* the generatorInfo values enableGenerator was given
    regCalls,       \* calls of enableGenerator so far
    gleft,          \* keys runGenerator of each generation has still to run
    gran            \* generators that ran to completion in each generation

vars == <<ctxDone, runPc, subscribed, restartClosed, errClosed, watcherClosed,
          supPc, skipStart, ngen, cur, cancelled, pc, ret, delivered, fs,
          dpc, crashed, lastSignal, prevSignal,
          args, cpc, calls, fname, prevFname, buildCommand, execCommand,
          evq, produced, emitted, spawns, burst,
          routePaths, catchAllTarget, request, answer,
          addr, disableTanukiupProxy, fnames, up, dial, env, px, ready, shut,
          pfail, child, created,
          baseDir, dirs, ignoreDirs, wpc, wi, stack, watched, scanned,
          visited,
          pending, lastScan, enabledGenerator, registered, regCalls, gleft,
          gran>>

runVars == <<runPc, subscribed, restartClosed, errClosed, watcherClosed>>
supVars == <<supPc, skipStart, ngen, cur, cancelled, lastSignal, prevSignal>>
taskVars == <<pc, ret, fs>>
dispVars == <<dpc>>
cmdVars == <<args, cpc, calls, fname, prevFname, buildCommand, execCommand>>
mainVars == <<ctxDone, runVars, supVars, taskVars, delivered, dispVars, crashed>>
queueVars == <<evq, produced, emitted, spawns, burst>>
routeVars == <<routePaths, catchAllTarget, request, answer>>
proxyVars == <<addr, disableTanukiupProxy, fnames, up, dial, env, px, ready,
               shut, pfail, child, created>>
walkVars == <<baseDir, dirs, ignoreDirs, wpc, wi, stack, watched, scanned,
              visited>>
registryVars == <<pending, lastScan, enabledGenerator, registered, regCalls,
                  gleft, gran>>
auxVars == <<queueVars, routeVars, proxyVars, walkVars, registryVars>>
\* What the actions of one specification leave to the others.
notQueueVars == <<routeVars, proxyVars, walkVars, registryVars>>
notRouteVars == <<queueVars, proxyVars, walkVars, registryVars>>
notProxyVars == <<queueVars, routeVars, walkVars, registryVars>>
notWalkVars == <<queueVars, routeVars, proxyVars, registryVars>>
notRegistryVars == <<queueVars, routeVars, proxyVars, walkVars>>

Gens == 1..MaxGen

NoRet == [stage |-> "none", err |-> "nil", ctxDone |-> FALSE]

\* A sub-context that does not derive from the run-level context.
CmdCtxDoneOwn(g) == g \in cancelled

\* A startCmd that is given the run-level context.
CmdCtxDoneRunLevel(g) == ctxDone

\* cmdCtx of generation g is done: it derives from ctx, or cancel() was called.
CmdCtxDone(g) == ctxDone \/ g \in cancelled

MainInit ==
    /\ ctxDone = FALSE
    /\ runPc = "walk"
    /\ subscribed = FALSE
    /\ restartClosed = FALSE
    /\ errClosed = FALSE
    /\ watcherClosed = FALSE
    /\ supPc = "top"
    /\ skipStart = FALSE
    /\ ngen = 0
    /\ cur = 0
    /\ cancelled = {}
    /\ pc = [g \in Gens |-> "idle"]
    /\ ret = [g \in Gens |-> NoRet]
    /\ delivered = {}
    /\ fs = {}
    /\ dpc = "recv"
    /\ crashed = FALSE
    /\ lastSignal = "none"
    /\ prevSignal = "none"

\* The state of a startCmd call that has not started.
CmdInit ==
    /\ cpc = "draw"
    /\ calls = 0
    /\ fname = 0
    /\ prevFname = 0
    /\ buildCommand = <<>>
    /\ execCommand = <<>>

\* The watcher holds nothing and the dispatcher has emitted nothing.
QueueInit ==
    /\ evq = <<>>
    /\ produced = 0
    /\ emitted = 0
    /\ spawns = 0
    /\ burst = FALSE

\* No proxy router is built.
RouteInit ==
    /\ routePaths = {}
    /\ catchAllTarget = ""
    /\ request = [method |-> "", path |-> ""]
    /\ answer = "none"

\* The Env of a new exec.Cmd: nil, which hands the child the environment of
\* tanukiup itself.
NilEnv == [nil |-> TRUE, entries |-> <<>>]

\* No generation has reached startCmd's proxy branch.
ProxyIdle ==
    /\ fnames = [g \in Gens |-> 0]
    /\ up = [g \in Gens |-> <<>>]
    /\ dial = [g \in Gens |-> <<>>]
    /\ env = [g \in Gens |-> NilEnv]
    /\ px = [g \in Gens |-> "none"]
    /\ ready = [g \in Gens |-> FALSE]
    /\ shut = [g \in Gens |-> FALSE]
    /\ pfail = [g \in Gens |-> "none"]
    /\ child = [g \in Gens |-> "none"]
    /\ created = {}

\* The default options: no listen address.
ProxyInit ==
    /\ addr = ""
    /\ disableTanukiupProxy = FALSE
    /\ ProxyIdle

\* Nothing is walked yet.
WalkIdle ==
    /\ wpc = "next"
    /\ wi = 1
    /\ stack = <<>>
    /\ watched = {}
    /\ scanned = {}
    /\ visited = {}

\* The default options: baseDir ".", dirs {"./"}, ignoreDirs {".git"}.
WalkInit ==
    /\ baseDir = <<".">>
    /\ dirs = << <<".", "/">> >>
    /\ ignoreDirs = {<<".", "g", "i", "t">>}
    /\ WalkIdle

\* No line read yet; enabledGenerator = map[string]*generatorInfo{}, and no generation runs
\* generators.
RegistryIdle ==
    /\ lastScan = [dir |-> <<>>, line |-> <<>>, outcome |-> "none"]
    /\ enabledGenerator = [k \in {} |-> k]
    /\ registered = {}
    /\ regCalls = 0
    /\ gleft = [g \in Gens |-> {}]
    /\ gran = [g \in Gens |-> {}]

\* A tree without .go files: nothing for searchGenerate to read.
RegistryInit ==
    /\ pending = <<>>
    /\ RegistryIdle

AuxInit == QueueInit /\ RouteInit /\ ProxyInit /\ WalkInit /\ RegistryInit

\* Run with the default options.
Init ==
    /\ MainInit
    /\ CmdInit
    /\ AuxInit
    /\ args = [buildCommand |-> defaultBuildCommand,
               execCommand |-> defaultExecCommand]


\* ------------------------------------------------------- the Run goroutine
\* walkDirFunc: watcher.Add(p) succeeds for a directory of the watch set.
WalkSubscribe ==
    /\ ~crashed
    /\ runPc = "walk"
    /\ ~subscribed
    /\ subscribed' = TRUE
    /\ UNCHANGED <<cmdVars, auxVars>>
    /\ UNCHANGED <<ctxDone, runPc, restartClosed, errClosed, watcherClosed,
                   supVars, taskVars, delivered, dispVars, crashed>>

\* The loop over args.dirs ends without error: Run blocks on <-ctx.Done().
WalkDone ==
    /\ ~crashed
    /\ runPc = "walk"
    /\ runPc' = "wait"
    /\ UNCHANGED <<cmdVars, auxVars>>
    /\ UNCHANGED <<ctxDone, subscribed, restartClosed, errClosed, watcherClosed,
                   supVars, taskVars, delivered, dispVars, crashed>>

\* os.Stat, ReadDir, searchGenerate or watcher.Add fails: Run returns the
\* error, which runs its deferred calls.
WalkFail ==
    /\ ~crashed
    /\ runPc = "walk"
    /\ runPc' = "closeRestart"
    /\ UNCHANGED <<cmdVars, auxVars>>
    /\ UNCHANGED <<ctxDone, subscribed, restartClosed, errClosed, watcherClosed,
                   supVars, taskVars, delivered, dispVars, crashed>>

\* <-ctx.Done() returns; Run returns nil, which runs its deferred calls.
RunCtxDone ==
    /\ ~crashed
    /\ runPc = "wait"
    /\ ctxDone
    /\ runPc' = "closeRestart"
    /\ UNCHANGED <<cmdVars, auxVars>>
    /\ UNCHANGED <<ctxDone, subscribed, restartClosed, errClosed, watcherClosed,
                   supVars, taskVars, delivered, dispVars, crashed>>

\* The deferred calls, last registered first:
\* close(restartChan), close(errChan), watcher.Close().
CloseRestartChan ==
    /\ ~crashed
    /\ runPc = "closeRestart"
    /\ restartClosed' = TRUE
    /\ runPc' = "closeErr"
    /\ UNCHANGED <<cmdVars, auxVars>>
    /\ UNCHANGED <<ctxDone, subscribed, errClosed, watcherClosed,
                   supVars, taskVars, delivered, dispVars, crashed>>

CloseErrChan ==
    /\ ~crashed
    /\ runPc = "closeErr"
    /\ errClosed' = TRUE
    /\ runPc' = "closeWatcher"
    /\ UNCHANGED <<cmdVars, auxVars>>
    /\ UNCHANGED <<ctxDone, subscribed, restartClosed, watcherClosed,
                   supVars, taskVars, delivered, dispVars, crashed>>

CloseWatcher ==
    /\ ~crashed
    /\ runPc = "closeWatcher"
    /\ watcherClosed' = TRUE
    /\ runPc' = "returned"
    /\ UNCHANGED <<cmdVars, auxVars>>
    /\ UNCHANGED <<ctxDone, subscribed, restartClosed, errClosed,
                   supVars, taskVars, delivered, dispVars, crashed>>

\* The host application cancels the run-level context (cmd/tanukiup: on
\* SIGHUP, SIGINT, SIGTERM or SIGQUIT).
CtxCancel ==
    /\ ~crashed
    /\ ~ctxDone
    /\ ctxDone' = TRUE
    /\ UNCHANGED <<cmdVars, auxVars>>
    /\ UNCHANGED <<runVars, supVars, taskVars, delivered, dispVars, crashed>>

\* ------------------------------------------------------ the supervisor loop
\* A loop that forgets to call cancel().
CancelNothing == cancelled

\* cancel() of the current iteration's cmdCtx.
Cancel == IF cur = 0 THEN cancelled ELSE cancelled \cup {cur}

\* A loop that never sets skipStart.
NextSkipStartNever(sig) == FALSE

\* skipStart after the select took the case `sig`.
NextSkipStart(sig) == sig = "failed"

\* Top of the loop with skipStart false: a new cmdCtx and a new generation
\* task, which begins with runGenerator(ctx).
SupSpawn ==
    /\ ~crashed
    /\ supPc = "top"
    /\ ~skipStart
    /\ ngen < MaxGen
    /\ ngen' = ngen + 1
    /\ cur' = ngen + 1
    /\ pc' = [pc EXCEPT ![ngen + 1] = "gen"]
    /\ supPc' = "select"
    /\ UNCHANGED <<cmdVars, auxVars>>
    /\ UNCHANGED <<ctxDone, runVars, skipStart, cancelled, lastSignal,
                   prevSignal, ret, fs, delivered, dispVars, crashed>>

\* Top of the loop with skipStart true: a new cmdCtx and no task.
SupSkip ==
    /\ ~crashed
    /\ supPc = "top"
    /\ skipStart
    /\ cur' = 0
    /\ supPc' = "select"
    /\ UNCHANGED <<cmdVars, auxVars>>
    /\ UNCHANGED <<ctxDone, runVars, skipStart, ngen, cancelled, lastSignal,
                   prevSignal, taskVars, delivered, dispVars, crashed>>

\* case <-ctx.Done(): cancel(); return
SupCtxDone ==
    /\ ~crashed
    /\ supPc = "select"
    /\ ctxDone
    /\ cancelled' = Cancel
    /\ supPc' = "exited"
    /\ UNCHANGED <<cmdVars, auxVars>>
    /\ UNCHANGED <<ctxDone, runVars, skipStart, ngen, cur, lastSignal,
                   prevSignal, taskVars, delivered, dispVars, crashed>>

\* case <-restartChan: cancel(); skipStart = false.  The receive pairs with
\* the dispatcher blocked in its send, or yields the zero value of a closed
\* channel.
SupRestart ==
    /\ ~crashed
    /\ supPc = "select"
    /\ restartClosed \/ dpc = "send"
    /\ cancelled' = Cancel
    /\ skipStart' = NextSkipStart("restart")
    /\ lastSignal' = "restart"
    /\ prevSignal' = lastSignal
    /\ dpc' = IF restartClosed THEN dpc ELSE "recv"
    /\ supPc' = "top"
    /\ UNCHANGED <<cmdVars, auxVars>>
    /\ UNCHANGED <<ctxDone, runVars, ngen, cur, taskVars, delivered, crashed>>

\* case <-errChan: cancel(); skipStart = true.  The receive pairs with a
\* generation task blocked in its send, or yields the zero value of a closed
\* channel.
SupErr ==
    /\ ~crashed
    /\ supPc = "select"
    /\ errClosed \/ \E g \in Gens : pc[g] = "sendErr"
    /\ cancelled' = Cancel
    /\ skipStart' = NextSkipStart("failed")
    /\ lastSignal' = "failed"
    /\ prevSignal' = lastSignal
    /\ IF errClosed
         THEN UNCHANGED <<pc, delivered>>
         ELSE \E g \in Gens :
                /\ pc[g] = "sendErr"
                /\ pc' = [pc EXCEPT ![g] = "done"]
                /\ delivered' = delivered \cup {g}
    /\ supPc' = "top"
    /\ UNCHANGED <<cmdVars, auxVars>>
    /\ UNCHANGED <<ctxDone, runVars, ngen, cur, ret, fs, dispVars, crashed>>

\* ------------------------------------------------------ generation tasks
\* The errors exec.Cmd.Run can return for a process that exits on its own:
\* an ExitError for a non-zero status; for status 0, nil, or ctx.Err() when
\* the context was cancelled and the kill was sent before the exit was seen.
OwnExitErrors(code, done) ==
    IF code # 0 THEN {"exit1"}
    ELSE IF done THEN {"nil", "canceled"}
    ELSE {"nil"}

\* The errors runGenerator(ctx) can return.  It runs the registered
\* generators under the run-level ctx: cancellation is seen only when that
\* context is done.
GeneratorErrors ==
    {"nil", "exit1", "notfound"} \cup
        (IF ctxDone THEN {"canceled", "killed"} ELSE {})

\* A command of generation g returned e at `stage`: the task applies the
\* error filter and sends on errChan, returns, or panics.
Finish(g, stage, e, done) ==
    LET out == IF e = "nil" THEN "swallow" ELSE FilterOutcome(e) IN
    /\ ret' = [ret EXCEPT ![g] = [stage |-> stage, err |-> e, ctxDone |-> done]]
    /\ pc' = [pc EXCEPT ![g] =
                IF out = "report" THEN "sendErr"
                ELSE IF out = "panic" THEN "panic"
                ELSE "done"]
    /\ crashed' = (out = "panic")

\* The output path of generation g exists after its build process wrote it
\* (wholly or partly).  The paths of different generations are taken to be
\* different files here; the draws that name them are examined in SpecCmd.
Written(g, wrote) == IF wrote THEN fs \cup {g} ELSE fs

\* A startCmd without the deferred remove.
RemovedNever(g) == fs

\* defer os.Remove(outpath), run when startCmd returns after the build.
Removed(g) == fs \ {g}

\* runGenerator(ctx) returns.  On an error the task filters it and is done;
\* otherwise it calls startCmd(cmdCtx, args).
RunGeneratorReturn(g) ==
    /\ ~crashed
    /\ pc[g] = "gen"
    /\ \E e \in GeneratorErrors :
         IF e = "nil"
           THEN /\ pc' = [pc EXCEPT ![g] = "startCmd"]
                /\ UNCHANGED <<ret, crashed>>
           ELSE Finish(g, "gen", e, ctxDone)
    /\ UNCHANGED <<cmdVars, auxVars>>
    /\ UNCHANGED <<ctxDone, runVars, supVars, fs, delivered, dispVars>>

\* startCmd up to bcmd.Run(): name the generation, substitute its outpath in
\* the build command, start the build.  exec.Cmd.Start returns ctx.Err()
\* without starting anything when the context is already done.
StartBuild(g) ==
    /\ ~crashed
    /\ pc[g] = "startCmd"
    /\ IF CmdCtxDone(g)
         THEN Finish(g, "build", "canceled", TRUE)
         ELSE \E started \in BOOLEAN :
                IF started
                  THEN /\ pc' = [pc EXCEPT ![g] = "building"]
                       /\ UNCHANGED <<ret, crashed>>
                  ELSE Finish(g, "build", "notfound", FALSE)
    /\ UNCHANGED <<cmdVars, auxVars>>
    /\ UNCHANGED <<ctxDone, runVars, supVars, fs, delivered, dispVars>>

\* The build process exits on its own.  On success startCmd registers the
\* deferred os.Remove(outpath) and goes on; on an error it returns at once,
\* before the defer statement.
BuildExit(g) ==
    /\ ~crashed
    /\ pc[g] = "building"
    /\ \E code \in {0, 1}, wrote \in BOOLEAN :
         /\ fs' = Written(g, wrote)
         /\ \E e \in OwnExitErrors(code, CmdCtxDone(g)) :
              IF e = "nil"
                THEN /\ pc' = [pc EXCEPT ![g] = "built"]
                     /\ UNCHANGED <<ret, crashed>>
                ELSE Finish(g, "build", e, CmdCtxDone(g))
    /\ UNCHANGED <<cmdVars, auxVars>>
    /\ UNCHANGED <<ctxDone, runVars, supVars, delivered, dispVars>>

\* cmdCtx is done and the build process dies of the kill: an ExitError with
\* exit code -1.  What it wrote so far stays.
BuildKilled(g) ==
    /\ ~crashed
    /\ pc[g] = "building"
    /\ CmdCtxDone(g)
    /\ \E wrote \in BOOLEAN : fs' = Written(g, wrote)
    /\ Finish(g, "build", "killed", TRUE)
    /\ UNCHANGED <<cmdVars, auxVars>>
    /\ UNCHANGED <<ctxDone, runVars, supVars, delivered, dispVars>>

\* startCmd from the defer statement to ecmd.Run(): substitute outpath in the
\* exec command and start it.  When it does not start, startCmd returns the
\* error and the deferred remove runs.
StartExec(g) ==
    /\ ~crashed
    /\ pc[g] = "built"
    /\ IF CmdCtxDone(g)
         THEN /\ Finish(g, "exec", "canceled", TRUE)
              /\ fs' = Removed(g)
         ELSE \E started \in BOOLEAN :
                IF started
                  THEN /\ pc' = [pc EXCEPT ![g] = "execing"]
                       /\ UNCHANGED <<ret, crashed, fs>>
                  ELSE /\ Finish(g, "exec", "notfound", FALSE)
                       /\ fs' = Removed(g)
    /\ UNCHANGED <<cmdVars, auxVars>>
    /\ UNCHANGED <<ctxDone, runVars, supVars, delivered, dispVars>>

\* The exec process exits on its own; startCmd returns and the deferred
\* remove runs.
ExecExit(g) ==
    /\ ~crashed
    /\ pc[g] = "execing"
    /\ \E code \in {0, 1} :
         \E e \in OwnExitErrors(code, CmdCtxDone(g)) :
            Finish(g, "exec", e, CmdCtxDone(g))
    /\ fs' = Removed(g)
    /\ UNCHANGED <<cmdVars, auxVars>>
    /\ UNCHANGED <<ctxDone, runVars, supVars, delivered, dispVars>>

\* cmdCtx is done and the exec process dies of the kill; startCmd returns and
\* the deferred remove runs.
ExecKilled(g) ==
    /\ ~crashed
    /\ pc[g] = "execing"
    /\ CmdCtxDone(g)
    /\ Finish(g, "exec", "killed", TRUE)
    /\ fs' = Removed(g)
    /\ UNCHANGED <<cmdVars, auxVars>>
    /\ UNCHANGED <<ctxDone, runVars, supVars, delivered, dispVars>>

\* ----------------------------------------------- the file event dispatcher
\* The environment changes a file of a subscribed directory and fsnotify
\* hands the event to the dispatcher, which waits on the unbuffered
\* watcher.Events: case event, ok := <-watcher.Events with ok true.  A
\* qualifying event takes the dispatcher to its send on restartChan, any other
\* back to the select.
FileEvent ==
    /\ ~crashed
    /\ subscribed
    /\ ~watcherClosed
    /\ dpc = "recv"
    /\ \E q \in {Qualifies(e) : e \in Events} :
           dpc' = IF q THEN "send" ELSE "recv"
    /\ UNCHANGED <<cmdVars, auxVars>>
    /\ UNCHANGED <<ctxDone, runVars, supVars, taskVars, delivered, crashed>>

\* The watcher's channels are closed: the dispatcher returns.
DispatchClosed ==
    /\ ~crashed
    /\ dpc = "recv"
    /\ watcherClosed
    /\ dpc' = "exited"
    /\ UNCHANGED <<cmdVars, auxVars>>
    /\ UNCHANGED <<ctxDone, runVars, supVars, taskVars, delivered, crashed>>

\* restartChan <- struct{}{} on the closed channel: a runtime panic.
DispatchSendClosed ==
    /\ ~crashed
    /\ dpc = "send"
    /\ restartClosed
    /\ dpc' = "panic"
    /\ crashed' = TRUE
    /\ UNCHANGED <<cmdVars, auxVars>>
    /\ UNCHANGED <<ctxDone, runVars, supVars, taskVars, delivered>>

\* ------------------------------- the dispatcher and the supervisor's drain
\* SpecDisp follows the notifications one by one while Run waits on
\* <-ctx.Done(): the watch set is subscribed, no channel is closed.
\*
\* Qualifying notifications not yet answered by a restart: those the watcher
\* holds, and the one the dispatcher is blocked sending for.
Outstanding(q, d) ==
    Cardinality({i \in 1..Len(q) : Qualifies(q[i])})
        + (IF d = "send" THEN 1 ELSE 0)

\* fsnotify has a notification for the dispatcher.  watcher.Events is
\* unbuffered: while the dispatcher is not receiving, the notification waits
\* in the watcher (its blocked send, its read buffer, the kernel queue), in
\* order of arrival.
WatcherEvent ==
    /\ subscribed
    /\ ~watcherClosed
    /\ produced < MaxEvents
    /\ Len(evq) < MaxQueue
    /\ \E e \in Events :
         /\ evq' = Append(evq, e)
         /\ burst' = (burst \/ Outstanding(evq', dpc) >= 2)
    /\ produced' = produced + 1
    /\ UNCHANGED <<mainVars, cmdVars, notQueueVars, emitted, spawns>>

\* case event, ok := <-watcher.Events with ok true: a qualifying event takes
\* the dispatcher to restartChan <- struct{}{}, where it blocks until the
\* supervisor receives; any other event takes it back to the select.
DispatcherRecv ==
    /\ dpc = "recv"
    /\ evq # <<>>
    /\ evq' = Tail(evq)
    /\ IF Qualifies(Head(evq))
         THEN /\ dpc' = "send"
              /\ emitted' = emitted + 1
         ELSE UNCHANGED <<dpc, emitted>>
    /\ UNCHANGED <<ctxDone, runVars, supVars, taskVars, delivered, crashed>>
    /\ UNCHANGED <<cmdVars, notQueueVars, produced, spawns, burst>>

\* Top of the supervisor loop with skipStart false: a new cmdCtx and a new
\* generation task.
LoopSpawn ==
    /\ supPc = "top"
    /\ ~skipStart
    /\ spawns' = spawns + 1
    /\ supPc' = "select"
    /\ UNCHANGED <<ctxDone, runVars, skipStart, ngen, cur, cancelled,
                   lastSignal, prevSignal, taskVars, delivered, dispVars,
                   crashed>>
    /\ UNCHANGED <<cmdVars, notQueueVars, evq, produced, emitted, burst>>

\* case <-restartChan: cancel(); skipStart = false.  The receive completes
\* the dispatcher's send.
LoopRestart ==
    /\ supPc = "select"
    /\ dpc = "send"
    /\ dpc' = "recv"
    /\ skipStart' = NextSkipStart("restart")
    /\ lastSignal' = "restart"
    /\ prevSignal' = lastSignal
    /\ supPc' = "top"
    /\ UNCHANGED <<ctxDone, runVars, ngen, cur, cancelled, taskVars, delivered,
                   crashed>>
    /\ UNCHANGED <<cmdVars, queueVars, notQueueVars>>

\* ------------------------------------------------- the proxy's request router
\* The routes showpaths can report, and the requests a client can send.
Methods == {"GET", "POST"}
Paths == {"/ping", "/other"}
RoutePaths == [method : Methods, path : Paths]
Requests == [method : Methods, path : Paths]

\* A router that looks at the path alone.
RouteByPath(rps, catchAll, req) ==
    IF \E rp \in rps : rp.path = req.path THEN "appProxy"
    ELSE IF catchAll # "" THEN "catchAll"
    ELSE "notFound"

\* The handler proxyServer builds: router.Method(rp.Method, rp.Path, appProxy)
\* for every discovered route, router.NotFound(catchAll.ServeHTTP) when a
\* catch-all target is configured.  chi serves a request by the handler
\* registered for its method and path; a request whose path is registered
\* under other methods only goes to the router's method-not-allowed handler
\* (status 405, not replaced here), any other to its not-found handler.
Route(rps, catchAll, req) ==
    IF \E rp \in rps : rp.method = req.method /\ rp.path = req.path
      THEN "appProxy"
    ELSE IF \E rp \in rps : rp.path = req.path THEN "methodNotAllowed"
    ELSE IF catchAll # "" THEN "catchAll"
    ELSE "notFound"

\* server.Handler serves a request.  appProxy forwards over the transport
\* that dials the generation's Unix socket, catchAll to the catch-all target.
ProxyServeHTTP ==
    /\ \E req \in Requests :
         /\ request' = req
         /\ answer' = Route(routePaths, catchAllTarget, req)
    /\ UNCHANGED <<routePaths, catchAllTarget>>
    /\ UNCHANGED <<mainVars, cmdVars, notRouteVars>>

\* --------------------------------------------- startCmd in proxy mode
\* SpecProxy follows the generations from a successful build on: the proxy
\* branch of startCmd, the readiness gate and the proxy server of each
\* generation, the child and its Router.ListenAndServe.
\*
\* defaultTanukiupUDSPathEnv, and tanukiupUDSPathEnv of the child's side.
tanukiupUDSPathEnv == "TANUKIUP_UDS_PATH"

\* os.LookupEnv in the child.  A nil ecmd.Env hands the child tanukiup's own
\* environment, taken not to hold the variable; otherwise the child has
\* exactly the entries of ecmd.Env.
LookupEnv(e, key) ==
    LET is == {i \in 1..Len(e.entries) : e.entries[i].key = key}
    IN  IF e.nil \/ is = {} THEN [ok |-> FALSE, val |-> <<>>]
        ELSE [ok |-> TRUE,
              val |-> e.entries[CHOOSE i \in is : \A j \in is : j <= i].val]

\* The environment the exec process is started in: with ecmd.Env nil the
\* environment of tanukiup itself (here two variables, as an instance),
\* otherwise the entries of ecmd.Env and nothing else.
Environ(e) ==
    IF e.nil
      THEN {[key |-> "PATH", val |-> <<"/", "b", "i", "n">>],
            [key |-> "HOME", val |-> <<"/", "r">>]}
      ELSE {e.entries[i] : i \in 1..Len(e.entries)}

\* url.Parse("http://" + addr) succeeds.
ParseOK(a) == a # "%zz"

\* Router.tanukiupUnixListener: the variable is looked up and the socket
\* bound with net.Listen("unix", p).
tanukiupUnixListener(e, bindOk) ==
    LET p == LookupEnv(e, tanukiupUDSPathEnv)
    IN  IF ~p.ok THEN "errTanukiupUDSNotFound"
        ELSE IF bindOk THEN "uds"
        ELSE "error"

\* A ListenAndServe that serves on addr when the socket cannot be bound.
ListenAndServeFallback(e, disabled, bindOk) ==
    IF disabled THEN "addr"
    ELSE IF tanukiupUnixListener(e, bindOk) = "uds" THEN "uds"
    ELSE "addr"

\* Router.ListenAndServe: what the child's server listens on, "error" when
\* it returns the listener's error before serving.
ListenAndServe(e, disabled, bindOk) ==
    LET uds == IF disabled THEN "nil" ELSE tanukiupUnixListener(e, bindOk)
    IN  IF uds = "error" THEN "error"
        ELSE IF uds = "uds" THEN "uds"
        ELSE "addr"

\* A gate that takes any event of the directory for the socket's.
GateMatchesAny(name, udspath) == TRUE

\* The readiness gate's test: event.Name == udsPath.
GateMatches(name, udspath) == name = udspath

\* A shutdown that leaves the listener open.
ShutdownKeeps(state) == state

\* server.Shutdown closes the server's listener, if it has one.
Shutdown(state) == IF state = "listening" THEN "closed" ELSE state

\* A proxy failure that makes startCmd return the error.
ProxyFailedReturn(g, kind) ==
    /\ pfail' = [pfail EXCEPT ![g] = kind]
    /\ pc' = [pc EXCEPT ![g] = "sendErr"]

\* waitAndListenProxyServer logs the failure and returns; startCmd goes on
\* to ecmd.Run().
ProxyFailed(g, kind) ==
    /\ pfail' = [pfail EXCEPT ![g] = kind]
    /\ pc' = [pc EXCEPT ![g] = "built"]

\* The generation's generators and its build have succeeded: runGenerator
\* returned nil, startCmd drew fname, bcmd.Run() returned nil and wrote the
\* output; startCmd is at its proxy branch.
BuildDone(g) ==
    /\ ~crashed
    /\ pc[g] = "gen"
    /\ \E r \in 0..MaxName : fnames' = [fnames EXCEPT ![g] = r]
    /\ fs' = Written(g, TRUE)
    /\ pc' = [pc EXCEPT ![g] = "proxy"]
    /\ UNCHANGED <<ctxDone, runVars, supVars, ret, delivered, dispVars,
                   crashed>>
    /\ UNCHANGED <<cmdVars, notProxyVars>>
    /\ UNCHANGED <<addr, disableTanukiupProxy, up, dial, env, px, ready, shut,
                   pfail, child, created>>

\* if args.addr != "": up := udsPath(fname, args.tempDir), the variable is
\* appended to the nil ecmd.Env, and waitAndListenProxyServer starts route
\* discovery.  Otherwise startCmd is at ecmd.Run().
ProxyEnv(g) ==
    /\ ~crashed
    /\ pc[g] = "proxy"
    /\ IF addr # ""
         THEN /\ up' = [up EXCEPT ![g] = udsPath(FormatUint(fnames[g]))]
              /\ env' = [env EXCEPT ![g] =
                            [nil |-> FALSE,
                             entries |-> Append(env[g].entries,
                                                [key |-> tanukiupUDSPathEnv,
                                                 val |-> up'[g]])]]
              /\ pc' = [pc EXCEPT ![g] = "discover"]
         ELSE /\ pc' = [pc EXCEPT ![g] = "built"]
              /\ UNCHANGED <<up, env>>
    /\ UNCHANGED <<ctxDone, runVars, supVars, ret, fs, delivered, dispVars,
                   crashed>>
    /\ UNCHANGED <<cmdVars, notProxyVars>>
    /\ UNCHANGED <<addr, disableTanukiupProxy, fnames, dial, px, ready, shut,
                   pfail, child, created>>

\* retrievePaths returns: the showpaths command ran and its output decoded,
\* or the command failed (also: was killed through ctx), or its output did
\* not decode.
Discover(g) ==
    /\ ~crashed
    /\ pc[g] = "discover"
    /\ \E out \in {"ok", "run", "decode"} :
         IF out = "ok"
           THEN /\ pc' = [pc EXCEPT ![g] = "construct"]
                /\ UNCHANGED pfail
           ELSE ProxyFailed(g, out)
    /\ UNCHANGED <<ctxDone, runVars, supVars, ret, fs, delivered, dispVars,
                   crashed>>
    /\ UNCHANGED <<cmdVars, notProxyVars>>
    /\ UNCHANGED <<addr, disableTanukiupProxy, fnames, up, dial, env, px,
                   ready, shut, child, created>>

\* A tryLaunchProxyServer that leaves watcher.Add to its goroutine: startCmd
\* goes on to ecmd.Run() with no watch on the socket's directory yet.
ProxySetupWatchLater(g) ==
    /\ ~crashed
    /\ pc[g] = "construct"
    /\ IF ~ParseOK(addr)
         THEN ProxyFailed(g, "construct") /\ UNCHANGED dial
         ELSE /\ dial' = [dial EXCEPT ![g] = up[g]]
              /\ pc' = [pc EXCEPT ![g] = "built"]
              /\ UNCHANGED pfail
    /\ UNCHANGED <<ctxDone, runVars, supVars, ret, fs, delivered, dispVars,
                   crashed>>
    /\ UNCHANGED <<cmdVars, notProxyVars>>
    /\ UNCHANGED <<addr, disableTanukiupProxy, fnames, up, env, px, ready,
                   shut, child, created>>

\* proxyServer, then tryLaunchProxyServer up to its go statement: the
\* address must parse, the watcher must be created and must accept the
\* socket's directory; then the gate goroutine waits and startCmd goes on to
\* ecmd.Run().
ProxySetup(g) ==
    /\ ~crashed
    /\ pc[g] = "construct"
    /\ IF ~ParseOK(addr)
         THEN ProxyFailed(g, "construct") /\ UNCHANGED <<px, dial>>
         ELSE /\ dial' = [dial EXCEPT ![g] = up[g]]
              /\ \E watching \in BOOLEAN :
                   IF watching
                     THEN /\ px' = [px EXCEPT ![g] = "waiting"]
                          /\ pc' = [pc EXCEPT ![g] = "built"]
                          /\ UNCHANGED pfail
                     ELSE ProxyFailed(g, "watcher") /\ UNCHANGED px
    /\ UNCHANGED <<ctxDone, runVars, supVars, ret, fs, delivered, dispVars,
                   crashed>>
    /\ UNCHANGED <<cmdVars, notProxyVars>>
    /\ UNCHANGED <<addr, disableTanukiupProxy, fnames, up, env, ready, shut,
                   child, created>>

\* Names of files in tempDir that something may touch: the outputs of the
\* generations built so far and the sockets bound so far.
TouchedNames ==
    {OutPath(fnames[h]) : h \in {k \in Gens : pc[k] \notin {"idle", "gen"}}}
        \cup created

\* The gate's watcher has an event of the socket's directory, which is
\* args.tempDir: the gate compares its name with the socket path.
TempDirEvent(g) ==
    /\ ~crashed
    /\ px[g] = "waiting"
    /\ \E n \in TouchedNames :
         ready' = [ready EXCEPT ![g] = ready[g] \/ GateMatches(n, up[g])]
    /\ UNCHANGED <<mainVars, cmdVars, notProxyVars>>
    /\ UNCHANGED <<addr, disableTanukiupProxy, fnames, up, dial, env, px,
                   shut, pfail, child, created>>

\* case event := <-watcher.Events with event.Name == udsPath: break OUTER,
\* close the watcher, start the goroutine that awaits ctx.Done().
GateEvent(g) ==
    /\ ~crashed
    /\ px[g] = "waiting"
    /\ ready[g]
    /\ px' = [px EXCEPT ![g] = "armed"]
    /\ UNCHANGED <<mainVars, cmdVars, notProxyVars>>
    /\ UNCHANGED <<addr, disableTanukiupProxy, fnames, up, dial, env, ready,
                   shut, pfail, child, created>>

\* case <-ctx.Done() in the gate: return.
GateCtxDone(g) ==
    /\ ~crashed
    /\ px[g] = "waiting"
    /\ CmdCtxDone(g)
    /\ px' = [px EXCEPT ![g] = "closed"]
    /\ UNCHANGED <<mainVars, cmdVars, notProxyVars>>
    /\ UNCHANGED <<addr, disableTanukiupProxy, fnames, up, dial, env, ready,
                   shut, pfail, child, created>>

\* A listener that shares the address with the listeners bound before it.
ProxyListenReusePort(g) ==
    /\ ~crashed
    /\ px[g] = "armed"
    /\ IF shut[g]
         THEN px' = [px EXCEPT ![g] = "closed"]
         ELSE \E bindOk \in BOOLEAN :
                px' = [px EXCEPT ![g] =
                          IF bindOk THEN "listening" ELSE "failed"]
    /\ UNCHANGED <<mainVars, cmdVars, notProxyVars>>
    /\ UNCHANGED <<addr, disableTanukiupProxy, fnames, up, dial, env, ready,
                   shut, pfail, child, created>>

\* server.ListenAndServe(): ErrServerClosed when Shutdown was called before;
\* otherwise it binds args.addr, which fails while another proxy (or anything
\* else) holds the address.
ProxyListen(g) ==
    /\ ~crashed
    /\ px[g] = "armed"
    /\ IF shut[g]
         THEN px' = [px EXCEPT ![g] = "closed"]
         ELSE \E bindOk \in
                    (IF \E h \in Gens : px[h] = "listening"
                       THEN {FALSE} ELSE BOOLEAN) :
                px' = [px EXCEPT ![g] =
                          IF bindOk THEN "listening" ELSE "failed"]
    /\ UNCHANGED <<mainVars, cmdVars, notProxyVars>>
    /\ UNCHANGED <<addr, disableTanukiupProxy, fnames, up, dial, env, ready,
                   shut, pfail, child, created>>

\* The goroutine started behind the gate: <-ctx.Done(), then server.Shutdown.
ProxyShutdown(g) ==
    /\ ~crashed
    /\ px[g] \in {"armed", "listening"}
    /\ ~shut[g]
    /\ CmdCtxDone(g)
    /\ shut' = [shut EXCEPT ![g] = TRUE]
    /\ px' = [px EXCEPT ![g] = Shutdown(px[g])]
    /\ UNCHANGED <<mainVars, cmdVars, notProxyVars>>
    /\ UNCHANGED <<addr, disableTanukiupProxy, fnames, up, dial, env, ready,
                   pfail, child, created>>

\* The child calls Router.ListenAndServe.  Binding the socket creates its
\* file, of which every watcher of tempDir is notified; the bind fails when
\* the file exists already, and may fail for other reasons.
ChildListen(g) ==
    /\ ~crashed
    /\ pc[g] = "execing"
    /\ child[g] = "none"
    /\ LET p == LookupEnv(env[g], tanukiupUDSPathEnv) IN
       \E bindOk \in (IF p.val \in created THEN {FALSE} ELSE BOOLEAN) :
         LET l == ListenAndServe(env[g], disableTanukiupProxy, bindOk) IN
         /\ child' = [child EXCEPT ![g] = l]
         /\ IF l = "uds"
              THEN /\ created' = created \cup {p.val}
                   /\ ready' = [h \in Gens |->
                                  \/ ready[h]
                                  \/ /\ px[h] = "waiting"
                                     /\ GateMatches(p.val, up[h])]
              ELSE UNCHANGED <<created, ready>>
    /\ UNCHANGED <<mainVars, cmdVars, notProxyVars>>
    /\ UNCHANGED <<addr, disableTanukiupProxy, fnames, up, dial, env, px,
                   shut, pfail>>

\* ------------------------------------------------ the walk over args.dirs
\* SpecWalk follows Run's loop over args.dirs and walkDirFunc, directory by
\* directory, on a small file tree.  Paths are strings, compared as the code
\* compares them.
\*
\* strings.HasSuffix and strings.TrimSuffix.
HasSuffix(str, suffix) ==
    /\ Len(str) >= Len(suffix)
    /\ SubSeq(str, Len(str) - Len(suffix) + 1, Len(str)) = suffix

TrimSuffix(str, suffix) ==
    IF HasSuffix(str, suffix) THEN SubSeq(str, 1, Len(str) - Len(suffix))
    ELSE str

\* The elements of a path between its separators, empty ones included.
RECURSIVE SplitPath(_)
SplitPath(path) ==
    LET seps == {i \in 1..Len(path) : path[i] = "/"}
    IN  IF seps = {} THEN <<path>>
        ELSE LET i == CHOOSE k \in seps : \A j \in seps : k <= j
             IN  <<SubSeq(path, 1, i - 1)>>
                     \o SplitPath(SubSeq(path, i + 1, Len(path)))

RECURSIVE JoinElems(_)
JoinElems(elems) ==
    IF Len(elems) = 1 THEN elems[1]
    ELSE elems[1] \o <<"/">> \o JoinElems(Tail(elems))

IsElem(elem) == elem # <<>> /\ elem # <<".">>

\* filepath.Clean for relative paths without "..": empty and "." elements
\* are dropped, and with them a trailing separator; nothing left is ".".
Clean(path) ==
    LET elems == SelectSeq(SplitPath(path), IsElem)
    IN  IF elems = <<>> THEN <<".">> ELSE JoinElems(elems)

\* filepath.Join(a, b) for a non-empty a: Clean(a + "/" + b).
JoinClean(a, b) == Clean(a \o <<"/">> \o b)

\* The file tree below the working directory: ., b, b/x, b/x/y, b/z.
DirB == <<"b">>
DirBX == <<"b", "/", "x">>
DirBXY == <<"b", "/", "x", "/", "y">>
DirBZ == <<"b", "/", "z">>
DirTree == {<<".">>, DirB, DirBX, DirBXY, DirBZ}

\* os.ReadDir(p): the entries of the directory in lexical order, directories
\* and files apart.
SubDirs(p) ==
    LET q == Clean(p) IN
    IF q = <<".">> THEN <<DirB>>
    ELSE IF q = DirB THEN << <<"x">>, <<"z">> >>
    ELSE IF q = DirBX THEN << <<"y">> >>
    ELSE <<>>

FileNames(p) ==
    LET q == Clean(p) IN
    IF q = <<".">> THEN {MainGo}
    ELSE IF q = DirB THEN {<<"g", ".", "g", "o">>}
    ELSE IF q = DirBX THEN {<<"h", ".", "g", "o">>, ReadmeMd}
    ELSE IF q = DirBXY THEN {<<"k", ".", "g", "o">>}
    ELSE {}

\* os.Stat(p) succeeds and reports a directory; os.ReadDir(p) succeeds.
IsDir(p) == p # <<>> /\ Clean(p) \in DirTree

\* generateDetectTargetFileExt
generateDetectTargetFileExt == <<".", "g", "o">>

\* The files of p that walkDirFunc hands to searchGenerate.
ScanFiles(p) ==
    {JoinClean(p, f) : f \in {n \in FileNames(p) :
                                 Ext(n) = generateDetectTargetFileExt}}

\* ignoreDirsMap of Run: the keys are filepath.Join(args.baseDir, dir).
ignoreDirsMap == {JoinClean(baseDir, d) : d \in ignoreDirs}

\* walkDirFunc(p) for a directory: what it returns after scanning the files
\* of p.
walkDirFunc(p) ==
    IF ~IsDir(p) THEN "error"
    ELSE IF p \in ignoreDirsMap THEN "SkipDir"
    ELSE "nil"

\* The paths filepath.WalkDir enters below p: Join(p, name) of its
\* subdirectories.
RECURSIVE WalkChildren(_, _)
WalkChildren(p, names) ==
    IF names = <<>> THEN <<>>
    ELSE <<JoinClean(p, Head(names))>> \o WalkChildren(p, Tail(names))

\* One turn of the loop over args.dirs, up to the call of filepath.WalkDir for
\* an entry that ends in "...", and through walkDirFunc(dir, nil, nil) for
\* any other entry.  After the last entry Run waits on <-ctx.Done().
NextRoot ==
    /\ wpc = "next"
    /\ IF wi > Len(dirs)
         THEN /\ wpc' = "wait"
              /\ UNCHANGED <<wi, stack, watched, scanned, visited>>
         ELSE LET dir == JoinClean(baseDir, dirs[wi])
                  noRecursive == TrimSuffix(dir, <<".", ".", ".">>)
              IN  IF noRecursive # dir
                    THEN /\ IF IsDir(noRecursive)
                              THEN wpc' = "walking" /\ stack' = <<noRecursive>>
                              ELSE wpc' = "failed" /\ UNCHANGED stack
                         /\ UNCHANGED <<wi, watched, scanned, visited>>
                    ELSE /\ scanned' = IF IsDir(dir)
                                         THEN scanned \cup ScanFiles(dir)
                                         ELSE scanned
                         /\ IF walkDirFunc(dir) = "nil"
                              THEN /\ watched' = watched \cup {Clean(dir)}
                                   /\ wi' = wi + 1
                                   /\ UNCHANGED wpc
                              ELSE /\ wpc' = "failed"
                                   /\ UNCHANGED <<wi, watched>>
                         /\ UNCHANGED <<stack, visited>>
    /\ UNCHANGED <<baseDir, dirs, ignoreDirs>>
    /\ UNCHANGED <<mainVars, cmdVars, notWalkVars>>

\* filepath.WalkDir calls walkDirFunc on the next directory: its files are
\* scanned; in the ignore set it is skipped with its subdirectories,
\* otherwise it is added to the watcher (which cleans the name) and its
\* subdirectories are entered next.
WalkStep ==
    /\ wpc = "walking"
    /\ stack # <<>>
    /\ LET p == Head(stack) IN
       /\ visited' = visited \cup {<<wi, p>>}
       /\ scanned' = scanned \cup ScanFiles(p)
       /\ IF walkDirFunc(p) = "SkipDir"
            THEN /\ stack' = Tail(stack)
                 /\ UNCHANGED watched
            ELSE /\ watched' = watched \cup {Clean(p)}
                 /\ stack' = WalkChildren(p, SubDirs(p)) \o Tail(stack)
    /\ UNCHANGED <<baseDir, dirs, ignoreDirs, wpc, wi>>
    /\ UNCHANGED <<mainVars, cmdVars, notWalkVars>>

\* filepath.WalkDir returns nil: continue with the next entry.
WalkReturn ==
    /\ wpc = "walking"
    /\ stack = <<>>
    /\ wpc' = "next"
    /\ wi' = wi + 1
    /\ UNCHANGED <<baseDir, dirs, ignoreDirs, stack, watched, scanned, visited>>
    /\ UNCHANGED <<mainVars, cmdVars, notWalkVars>>

\* ------------------------------------------------ the generator registry
\* SpecScan follows searchGenerate line by line, SpecGen the registry between
\* the directive scan of Run and runGenerator of the generations.
\*
\* strings.HasPrefix
HasPrefix(str, prefix) ==
    /\ Len(str) >= Len(prefix)
    /\ SubSeq(str, 1, Len(prefix)) = prefix

\* unicode.IsSpace for the characters used here.
IsSpace(c) == c \in {" ", "\t"}

\* strings.Fields: the maximal runs of non-space characters, in order.
RECURSIVE Fields(_)
Fields(str) ==
    IF str = <<>> THEN <<>>
    ELSE IF IsSpace(Head(str)) THEN Fields(Tail(str))
    ELSE LET spaces == {i \in 1..Len(str) : IsSpace(str[i])}
             n == IF spaces = {} THEN Len(str) + 1
                  ELSE CHOOSE i \in spaces : \A j \in spaces : i <= j
         IN  <<SubSeq(str, 1, n - 1)>> \o Fields(SubSeq(str, n, Len(str)))

\* The prefix searchGenerate tests a line for.
generatePrefix ==
    <<"/", "/", "g", "o", ":", "g", "e", "n", "e", "r", "a", "t", "e", " ",
      "g", "o", " ", "r", "u", "n", " ">>

\* The one key of whitelistGenerate.
gentypescript ==
    <<"g", "i", "t", "h", "u", "b", ".", "c", "o", "m", "/", "m", "a", "c",
      "k", "e", "e", "/", "t", "a", "n", "u", "k", "i", "r", "p", "c",
      "/", "c", "m", "d", "/", "g", "e", "n", "t", "y", "p", "e", "s",
      "c", "r", "i", "p", "t">>

whitelistGenerate == {gentypescript}

\* A test that takes every generator for an allowed one.
OnWhitelistAny(field) == TRUE

\* _, ok := whitelistGenerate[fields[3]]
OnWhitelist(field) == field \in whitelistGenerate

\* fmt's %v of a []string: the elements between brackets, a space apart.
RECURSIVE JoinSpace(_)
JoinSpace(elems) ==
    IF elems = <<>> THEN <<>>
    ELSE IF Len(elems) = 1 THEN elems[1]
    ELSE elems[1] \o <<" ">> \o JoinSpace(Tail(elems))

\* generatorInfo.String: fmt.Sprintf("command: %v, dir: %s", g.command, g.dir)
GeneratorInfoString(g) ==
    <<"c", "o", "m", "m", "a", "n", "d", ":", " ">>
        \o <<"[">> \o JoinSpace(g.command) \o <<"]">>
        \o <<",", " ", "d", "i", "r", ":", " ">>
        \o g.dir

\* The lines of the scanned files.
LineGen == generatePrefix \o gentypescript
LineGenArg == LineGen \o <<" ", "x">>
LineOtherGen == generatePrefix \o <<"s", "t", "r", "i", "n", "g", "e", "r">>
LineTwoSpaces ==
    <<"/", "/", "g", "o", ":", "g", "e", "n", "e", "r", "a", "t", "e", " ",
      "g", "o", " ", " ", "r", "u", "n", " ">> \o gentypescript
Lines ==
    {LineGen, LineGenArg, LineOtherGen, LineTwoSpaces,
     LineGen \o <<" ", "x", "]", ",", " ", "d", "i", "r", ":", " ", "y">>,
     generatePrefix,
     <<" ">> \o LineGen}

\* filepath.Dir(filename) of the scanned files: the directories ".", "z" and
\* one whose name holds a bracket, a comma and spaces.
DirZ == <<"z">>
ScanItems ==
    [dir : {<<".">>, DirZ, <<"y", "]", ",", " ", "d", "i", "r", ":", " ", "z">>},
     line : Lines]

\* A write lock that is granted while runGenerator calls hold the read lock.
LockBlockedNever == FALSE

\* enabledGeneratorMutex.Lock() cannot return yet: a runGenerator call holds
\* the read lock.
LockBlocked == \E g \in Gens : pc[g] = "genrun"

\* enableGenerator(ctx, generator), between Lock() and the deferred
\* Unlock(): enabledGenerator[generator.String()] = generator.
enableGenerator(generator) ==
    /\ enabledGenerator' =
           (GeneratorInfoString(generator) :> generator) @@ enabledGenerator
    /\ registered' = registered \cup {generator}
    /\ regCalls' = regCalls + 1

\* One turn of searchGenerate's loop over scanner.Scan(): with ctx done it
\* returns nil (and so does every later call); otherwise a line with the
\* prefix, at least four fields and fields[3] on the whitelist is registered
\* with command fields[1:] and the file's directory, any other line passed
\* over.  Registering begins with enableGenerator's call of Lock().
ScanLine ==
    /\ ~crashed
    /\ runPc = "walk"
    /\ pending # <<>>
    /\ lastScan.outcome \notin {"lockWait", "locked"}
    /\ LET it == Head(pending)
           fields == Fields(it.line)
       IN  IF ctxDone
             THEN /\ lastScan' = [dir |-> it.dir, line |-> it.line,
                                  outcome |-> "ctxDone"]
                  /\ pending' = Tail(pending)
           ELSE IF /\ HasPrefix(it.line, generatePrefix)
                   /\ ~(Len(fields) < 4)
                   /\ OnWhitelist(fields[4])
             THEN /\ lastScan' = [dir |-> it.dir, line |-> it.line,
                                  outcome |-> "lockWait"]
                  /\ UNCHANGED pending
           ELSE /\ lastScan' = [dir |-> it.dir, line |-> it.line,
                                outcome |-> "continue"]
                /\ pending' = Tail(pending)
    /\ UNCHANGED <<enabledGenerator, registered, regCalls, gleft, gran>>
    /\ UNCHANGED <<mainVars, cmdVars, notRegistryVars>>

\* enabledGeneratorMutex.Lock() returns in enableGenerator: the last reader
\* has released the lock.
EnableLock ==
    /\ ~crashed
    /\ runPc = "walk"
    /\ lastScan.outcome = "lockWait"
    /\ ~LockBlocked
    /\ lastScan' = [lastScan EXCEPT !.outcome = "locked"]
    /\ UNCHANGED <<pending, enabledGenerator, registered, regCalls, gleft,
                   gran>>
    /\ UNCHANGED <<mainVars, cmdVars, notRegistryVars>>

\* enableGenerator writes the map with command fields[1:] and the file's
\* directory, its deferred Unlock() runs and searchGenerate goes on to the
\* next line.
EnableWrite ==
    /\ ~crashed
    /\ runPc = "walk"
    /\ lastScan.outcome = "locked"
    /\ enableGenerator([command |-> Tail(Fields(lastScan.line)),
                        dir |-> lastScan.dir])
    /\ lastScan' = [lastScan EXCEPT !.outcome = "enabled"]
    /\ pending' = Tail(pending)
    /\ UNCHANGED <<gleft, gran>>
    /\ UNCHANGED <<mainVars, cmdVars, notRegistryVars>>

\* The last file is read and the loop over args.dirs ends: Run blocks on
\* <-ctx.Done().
WalkScanned ==
    /\ ~crashed
    /\ runPc = "walk"
    /\ pending = <<>>
    /\ runPc' = "wait"
    /\ UNCHANGED <<cmdVars, auxVars>>
    /\ UNCHANGED <<ctxDone, subscribed, restartClosed, errClosed, watcherClosed,
                   supVars, taskVars, delivered, dispVars, crashed>>

\* runGenerator: enabledGeneratorMutex.RLock(), then the loop over the map,
\* which holds the registry as it is now.  RLock() does not return while
\* enableGenerator holds the lock or waits in Lock() (a sync.RWMutex admits
\* no new reader then).
GenLock(g) ==
    /\ ~crashed
    /\ pc[g] = "gen"
    /\ lastScan.outcome \notin {"lockWait", "locked"}
    /\ pc' = [pc EXCEPT ![g] = "genrun"]
    /\ gleft' = [gleft EXCEPT ![g] = DOMAIN enabledGenerator]
    /\ UNCHANGED <<ctxDone, runVars, supVars, ret, fs, delivered, dispVars,
                   crashed>>
    /\ UNCHANGED <<pending, lastScan, enabledGenerator, registered, regCalls,
                   gran>>
    /\ UNCHANGED <<cmdVars, notRegistryVars>>

\* generator.run(ctx) of the next generator, in the map's iteration order
\* (any): it runs to completion, or its error ends runGenerator, which the
\* task filters before it returns.
GenRun(g) ==
    /\ ~crashed
    /\ pc[g] = "genrun"
    /\ gleft[g] # {}
    /\ \E k \in gleft[g], e \in GeneratorErrors :
         IF e = "nil"
           THEN /\ gleft' = [gleft EXCEPT ![g] = gleft[g] \ {k}]
                /\ gran' = [gran EXCEPT ![g] =
                               gran[g] \cup {enabledGenerator[k]}]
                /\ UNCHANGED <<pc, ret, crashed>>
           ELSE /\ Finish(g, "gen", e, ctxDone)
                /\ gleft' = [gleft EXCEPT ![g] = {}]
                /\ UNCHANGED gran
    /\ UNCHANGED <<ctxDone, runVars, supVars, fs, delivered, dispVars>>
    /\ UNCHANGED <<pending, lastScan, enabledGenerator, registered, regCalls>>
    /\ UNCHANGED <<cmdVars, notRegistryVars>>

\* The loop is through: runGenerator returns nil and the task calls
\* startCmd(cmdCtx, args).
GenReturn(g) ==
    /\ ~crashed
    /\ pc[g] = "genrun"
    /\ gleft[g] = {}
    /\ pc' = [pc EXCEPT ![g] = "startCmd"]
    /\ UNCHANGED <<ctxDone, runVars, supVars, ret, fs, delivered, dispVars,
                   crashed>>
    /\ UNCHANGED registryVars
    /\ UNCHANGED <<cmdVars, notRegistryVars>>

\* ------------------------------------ startCmd's sequential code, by steps
\* fname := strconv.FormatUint(rand.Uint64(), 10); outpath is derived from it.
CmdDraw ==
    /\ cpc = "draw"
    /\ calls < MaxGen
    /\ \E r \in 0..MaxRand : fname' = r
    /\ cpc' = "build"
    /\ UNCHANGED <<args, calls, prevFname, buildCommand, execCommand>>
    /\ UNCHANGED <<mainVars, auxVars>>

\* The loop over args.buildCommand.
CmdBuildArgs ==
    /\ cpc = "build"
    /\ buildCommand' = Substitute(args.buildCommand, OutPath(fname))
    /\ cpc' = "exec"
    /\ UNCHANGED <<args, calls, fname, prevFname, execCommand>>
    /\ UNCHANGED <<mainVars, auxVars>>

\* The loop over args.execCommand.
CmdExecArgs ==
    /\ cpc = "exec"
    /\ execCommand' = Substitute(args.execCommand, OutPath(fname))
    /\ cpc' = "ret"
    /\ UNCHANGED <<args, calls, fname, prevFname, buildCommand>>
    /\ UNCHANGED <<mainVars, auxVars>>

\* startCmd returns; the next generation calls it again.
CmdReturn ==
    /\ cpc = "ret"
    /\ calls' = calls + 1
    /\ prevFname' = fname
    /\ buildCommand' = <<>>
    /\ execCommand' = <<>>
    /\ cpc' = "draw"
    /\ UNCHANGED <<args, fname>>
    /\ UNCHANGED <<mainVars, auxVars>>

\* ------------------------------------------------------------ specification
RunNext ==
    \/ WalkSubscribe \/ WalkDone \/ WalkFail \/ RunCtxDone
    \/ CloseRestartChan \/ CloseErrChan \/ CloseWatcher

SupNext == SupSpawn \/ SupSkip \/ SupCtxDone \/ SupRestart \/ SupErr

TaskNext ==
    \E g \in Gens :
        \/ RunGeneratorReturn(g) \/ StartBuild(g) \/ BuildExit(g)
        \/ BuildKilled(g) \/ StartExec(g) \/ ExecExit(g) \/ ExecKilled(g)

DispNext == FileEvent \/ DispatchClosed \/ DispatchSendClosed

Next == RunNext \/ SupNext \/ TaskNext \/ DispNext \/ CtxCancel

Spec == Init /\ [][Next]_vars

\* The steps of a generation task that wait for nothing outside the program,
\* and the death of a process that was sent the kill.
TaskInternal ==
    \E g \in Gens :
        StartBuild(g) \/ StartExec(g) \/ BuildKilled(g) \/ ExecKilled(g)

\* The Go scheduler runs every runnable goroutine: a supervisor loop that can
\* take a step takes one, and so does a generation task, the dispatcher and
\* the Run goroutine.  Nothing is assumed of the environment: file changes,
\* cancellation of the run-level context, a directory walk or a command
\* coming to an end on its own.
FairSpec ==
    /\ Spec
    /\ WF_vars(SupNext)
    /\ WF_vars(TaskInternal)
    /\ WF_vars(DispatchClosed \/ DispatchSendClosed)
    /\ WF_vars(RunCtxDone \/ CloseRestartChan \/ CloseErrChan \/ CloseWatcher)

\* startCmd's sequential code for consecutive generations, under every pair
\* of configured command templates.
InitCmd ==
    /\ MainInit
    /\ CmdInit
    /\ AuxInit
    /\ args \in [buildCommand : Templates, execCommand : Templates]

NextCmd == CmdDraw \/ CmdBuildArgs \/ CmdExecArgs \/ CmdReturn

SpecCmd == InitCmd /\ [][NextCmd]_vars

\* Run has walked and subscribed its directories and waits on <-ctx.Done();
\* the supervisor loop and the dispatcher are at their first statements.
MainWalked ==
    /\ ctxDone = FALSE
    /\ runPc = "wait"
    /\ subscribed = TRUE
    /\ restartClosed = FALSE
    /\ errClosed = FALSE
    /\ watcherClosed = FALSE
    /\ supPc = "top"
    /\ skipStart = FALSE
    /\ ngen = 0
    /\ cur = 0
    /\ cancelled = {}
    /\ pc = [g \in Gens |-> "idle"]
    /\ ret = [g \in Gens |-> NoRet]
    /\ delivered = {}
    /\ fs = {}
    /\ dpc = "recv"
    /\ crashed = FALSE
    /\ lastSignal = "none"
    /\ prevSignal = "none"

InitDisp ==
    /\ MainWalked
    /\ CmdInit
    /\ AuxInit
    /\ args = [buildCommand |-> defaultBuildCommand,
               execCommand |-> defaultExecCommand]

\* A proxy server built by proxyServer from any discovered route list, with
\* and without a catch-all target.
InitRoute ==
    /\ MainWalked
    /\ CmdInit
    /\ RegistryInit
    /\ QueueInit
    /\ ProxyInit
    /\ WalkInit
    /\ args = [buildCommand |-> defaultBuildCommand,
               execCommand |-> defaultExecCommand]
    /\ routePaths \in SUBSET RoutePaths
    /\ catchAllTarget \in {"", "http://localhost:5173"}
    /\ request = [method |-> "", path |-> ""]
    /\ answer = "none"

NextRoute == ProxyServeHTTP

SpecRoute == InitRoute /\ [][NextRoute]_vars

\* Run with or without a listen address (one that parses, one that does
\* not), the child with or without WithDisableTanukiupProxy.  The child is a
\* server: once started it runs until it is killed.
InitProxy ==
    /\ MainWalked
    /\ CmdInit
    /\ RegistryInit
    /\ QueueInit
    /\ RouteInit
    /\ WalkInit
    /\ args = [buildCommand |-> defaultBuildCommand,
               execCommand |-> defaultExecCommand]
    /\ addr \in {"", ":8080", "%zz"}
    /\ disableTanukiupProxy \in BOOLEAN
    /\ ProxyIdle

ProxyTaskNext ==
    \E g \in Gens :
        \/ BuildDone(g) \/ ProxyEnv(g) \/ Discover(g) \/ ProxySetup(g)
        \/ StartExec(g) \/ ExecKilled(g)

GateNext ==
    \E g \in Gens :
        GateEvent(g) \/ GateCtxDone(g) \/ ProxyListen(g) \/ ProxyShutdown(g)

ProxyEnvNext == \E g \in Gens : TempDirEvent(g) \/ ChildListen(g)

NextProxy ==
    \/ SupSpawn \/ SupRestart \/ SupCtxDone \/ CtxCancel \/ FileEvent
    \/ ProxyTaskNext \/ GateNext \/ ProxyEnvNext

SpecProxy == InitProxy /\ [][NextProxy]_vars

\* The scheduler runs the supervisor loop, the tasks' own code and the proxy
\* goroutines when they can take a step; route discovery comes to an end,
\* and a process that was sent the kill dies.  Nothing is assumed of file
\* changes, of cancellation, or of the child calling ListenAndServe.
FairSpecProxy ==
    /\ SpecProxy
    /\ WF_vars(SupSpawn \/ SupRestart \/ SupCtxDone)
    /\ \A g \in Gens :
         /\ WF_vars(ProxyEnv(g) \/ Discover(g) \/ ProxySetup(g))
         /\ WF_vars(StartExec(g) \/ ExecKilled(g))
         /\ WF_vars(GateEvent(g) \/ GateCtxDone(g))
         /\ WF_vars(ProxyListen(g))
         /\ WF_vars(ProxyShutdown(g))

\* The entries args.dirs and args.ignoreDirs are made of.
DirSpecs == {<<".", "/">>, <<".", "/", ".", ".", ".">>, <<"x">>, <<"x", "/", ".", ".", ".">>}
IgnoreSpecs == {<<"x">>, <<"x", "/", "y">>}

\* Run with a base directory, one to MaxRoots directories and any set of
\* ignored directories.
InitWalk ==
    /\ MainInit
    /\ CmdInit
    /\ RegistryInit
    /\ QueueInit
    /\ RouteInit
    /\ ProxyInit
    /\ args = [buildCommand |-> defaultBuildCommand,
               execCommand |-> defaultExecCommand]
    /\ baseDir \in {<<".">>, DirB}
    /\ dirs \in UNION {[1..n -> DirSpecs] : n \in 1..MaxRoots}
    /\ ignoreDirs \in SUBSET IgnoreSpecs
    /\ WalkIdle

NextWalk == NextRoot \/ WalkStep \/ WalkReturn

SpecWalk == InitWalk /\ [][NextWalk]_vars

\* The lines searchGenerate reads in one walk: one to MaxScan lines, each of
\* a file in one of the directories.
InitScan ==
    /\ MainInit
    /\ CmdInit
    /\ QueueInit
    /\ RouteInit
    /\ ProxyInit
    /\ WalkInit
    /\ args = [buildCommand |-> defaultBuildCommand,
               execCommand |-> defaultExecCommand]
    /\ pending \in UNION {[1..n -> ScanItems] : n \in 1..MaxScan}
    /\ RegistryIdle

NextScan == ScanLine \/ EnableLock \/ EnableWrite \/ WalkScanned \/ CtxCancel

SpecScan == InitScan /\ [][NextScan]_vars

\* The files of a tree with two go:generate lines for gentypescript, in two
\* directories, and a line for another generator.
InitGen ==
    /\ MainInit
    /\ CmdInit
    /\ QueueInit
    /\ RouteInit
    /\ ProxyInit
    /\ WalkInit
    /\ args = [buildCommand |-> defaultBuildCommand,
               execCommand |-> defaultExecCommand]
    /\ pending \in UNION {[1..n -> {[dir |-> <<".">>, line |-> LineGen],
                                    [dir |-> DirZ, line |-> LineGenArg],
                                    [dir |-> <<".">>, line |-> LineOtherGen]}]
                           : n \in 1..MaxScan}
    /\ RegistryIdle

NextGen ==
    \/ ScanLine \/ EnableLock \/ EnableWrite \/ WalkSubscribe \/ WalkScanned \/ CtxCancel
    \/ SupSpawn \/ SupRestart \/ SupCtxDone \/ FileEvent
    \/ \E g \in Gens :
        \/ GenLock(g) \/ GenRun(g) \/ GenReturn(g)
        \/ StartBuild(g) \/ BuildExit(g) \/ BuildKilled(g)
        \/ StartExec(g) \/ ExecKilled(g)

SpecGen == InitGen /\ [][NextGen]_vars

\* The scheduler wakes the goroutine that waits in Lock() when the lock is
\* free, and every generator command that was started comes to an end, after
\* which runGenerator returns.  Nothing is assumed of the walk, of the
\* supervisor loop, of file changes, of cancellation, or of the build and
\* exec commands.
FairSpecGen ==
    /\ SpecGen
    /\ WF_vars(EnableLock)
    /\ \A g \in Gens : WF_vars(GenRun(g) \/ GenReturn(g))

NextDisp == WatcherEvent \/ DispatcherRecv \/ LoopSpawn \/ LoopRestart

\* The dispatcher, the watcher's notifications and the supervisor's drain of
\* restartChan.
SpecDisp == InitDisp /\ [][NextDisp]_vars

TypeOK ==
    /\ ctxDone \in BOOLEAN /\ crashed \in BOOLEAN /\ skipStart \in BOOLEAN
    /\ runPc \in {"walk", "wait", "closeRestart", "closeErr", "closeWatcher",
                  "returned"}
    /\ supPc \in {"top", "select", "exited"}
    /\ ngen \in 0..MaxGen /\ cur \in 0..MaxGen /\ cancelled \subseteq Gens
    /\ pc \in [Gens -> {"idle", "gen", "startCmd", "building", "built",
                        "execing", "sendErr", "done", "panic", "genrun",
                        "proxy", "discover", "construct"}]
    /\ dpc \in {"recv", "send", "exited", "panic"}
    /\ lastSignal \in {"none", "restart", "failed"}
    /\ prevSignal \in {"none", "restart", "failed"}


\* ------------------------------------------------------------------ claims
Active(g) == pc[g] \in {"building", "execing"}

\* C1: at every instant at most one generation has a build or exec command
\* running; when a new generation starts, no command of an earlier one runs.
AtMostOnePipelineActive ==
    Cardinality({g \in Gens : Active(g)}) <= 1

\* C2: while the run-level context is not cancelled (and Run has not
\* returned), a qualifying file event the dispatcher has taken is eventually
\* followed by the start of a new generation.
FileEventStartsGeneration ==
    \A k \in 0..(MaxGen - 1) :
        [](dpc = "send" /\ supPc = "select" /\ ngen = k
            => <>(ngen > k \/ ctxDone \/ runPc \notin {"walk", "wait"}))

\* C3: the select's errChan case sets skipStart, and no generation is spawned
\* while the last signal taken is the failure: a spawn that follows a failure
\* follows a restart-requested signal taken after it.
NoAutomaticRestartAfterFailure ==
    [][/\ (supPc = "select" /\ supPc' = "top" /\ lastSignal' = "failed")
            => skipStart'
       /\ ngen' > ngen => lastSignal # "failed"]_vars

\* C3 witness: a generation was spawned after a failure and a later restart.
SpawnedAfterFailureAndRestart ==
    /\ prevSignal = "failed"
    /\ lastSignal = "restart"
    /\ supPc = "select"
    /\ cur = ngen
    /\ cur > 0

\* C4: a generation whose exec command exited non-zero on its own, its
\* sub-context not cancelled, has its failure delivered on errChan.
ExecFailureIsReported ==
    \A g \in Gens :
        (/\ pc[g] = "done"
         /\ ret[g].stage = "exec"
         /\ ret[g].err = "exit1"
         /\ ~ret[g].ctxDone) => g \in delivered

\* C5: a generation-local failure (generator, build or exec; a non-zero exit
\* or a command that cannot be started) does not crash the supervisor: the
\* task that met it does not panic and the process lives on.
GenerationFailureNeverCrashes ==
    \A g \in Gens :
        (ret[g].err \in {"exit1", "notfound"} /\ ~ret[g].ctxDone)
            => pc[g] # "panic" /\ ~crashed

\* C6: an error caused solely by cancellation (context.Canceled, or a process
\* killed because its context was cancelled) is never sent on errChan.
CancellationNeverReported ==
    \A g \in Gens :
        ret[g].err \in {"canceled", "killed"}
            => pc[g] = "done" /\ g \notin delivered

\* C6 witness: a generation's exec process was killed by cancellation.
ExecKilledByCancellation ==
    \E g \in Gens :
        ret[g].stage = "exec" /\ ret[g].err = "killed" /\ pc[g] = "done"

\* C7: once a generation's exec step has returned (success, failure, kill, or
\* a command that did not start), its output path does not exist.
OutputRemovedAfterExec ==
    \A g \in Gens : ret[g].stage = "exec" => g \notin fs

\* C7 witness: an exec step returned a failure and another returned success.
ExecReturnedBothWays ==
    \E g, h \in Gens :
        /\ ret[g].stage = "exec" /\ ret[g].err = "exit1"
        /\ ret[h].stage = "exec" /\ ret[h].err = "nil" /\ pc[h] = "done"

\* C8: when the build command fails, the output path of that generation is
\* removed all the same.
OutputRemovedAfterFailedBuild ==
    \A g \in Gens :
        (ret[g].stage = "build" /\ ret[g].err \in {"exit1", "killed"})
            => g \notin fs

\* The argument vector `out` is `template` with exactly the tokens equal to
\* the placeholder replaced by `outpath`.
SubstitutedExactly(template, out, outpath) ==
    /\ Len(out) = Len(template)
    /\ \A i \in 1..Len(template) :
         /\ template[i] = buildOutPathPlaceholder => out[i] = outpath
         /\ template[i] # buildOutPathPlaceholder => out[i] = template[i]

\* C9: in the build and in the exec argument vector, every token equal to the
\* placeholder is replaced by this generation's tempDir/<name>, and every
\* other token, also one containing the placeholder, stays in its place.
PlaceholderSubstitution ==
    /\ cpc \in {"exec", "ret"}
         => SubstitutedExactly(args.buildCommand, buildCommand,
                               tempDir \o <<"/">> \o FormatUint(fname))
    /\ cpc = "ret"
         => SubstitutedExactly(args.execCommand, execCommand,
                               tempDir \o <<"/">> \o FormatUint(fname))

\* C9 witness: both vectors are substituted, the build template holding the
\* placeholder and a token that only contains it.
SubstitutedWithEmbeddedToken ==
    /\ cpc = "ret"
    /\ \E i, j \in 1..Len(args.buildCommand) :
         /\ args.buildCommand[i] = buildOutPathPlaceholder
         /\ args.buildCommand[j] = EmbeddedToken
         /\ buildCommand[j] = EmbeddedToken
    /\ \E i \in 1..Len(args.execCommand) :
         args.execCommand[i] = buildOutPathPlaceholder

\* C10 as stated: the output paths of two consecutive generations differ.
ConsecutiveOutpathsDiffer ==
    (calls >= 1 /\ cpc # "draw") => OutPath(fname) # OutPath(prevFname)

\* C10 as amended: the output paths and the socket paths of two consecutive
\* generations differ whenever their draws differ.
OutpathsDifferWhenDrawsDiffer ==
    (calls >= 1 /\ cpc # "draw" /\ fname # prevFname)
        => /\ OutPath(fname) # OutPath(prevFname)
           /\ udsPath(FormatUint(fname)) # udsPath(FormatUint(prevFname))

\* C10 witness: a second generation drew another name than the first.
SecondGenerationOtherName ==
    calls >= 1 /\ cpc = "ret" /\ fname # prevFname /\ Len(FormatUint(fname)) > 1

\* C11: the dispatcher reaches its send on restartChan exactly once for each
\* notification whose operations include write or create and whose path
\* extension is in the configured set, and never for another notification.
OneRestartPerQualifyingEvent ==
    [][/\ Len(evq') < Len(evq) =>
            LET e == Head(evq) IN
            IF /\ e.op \cap {"Write", "Create"} # {}
               /\ \E x \in extMap : Ext(e.name) = x
              THEN emitted' = emitted + 1 /\ dpc' = "send"
              ELSE emitted' = emitted /\ dpc' = "recv"
       /\ emitted' # emitted => Len(evq') < Len(evq)]_vars

\* C11 witness: the dispatcher has taken three notifications and emitted for
\* one of them only.
EmittedForOneOfThree ==
    produced = 3 /\ evq = <<>> /\ emitted = 1 /\ dpc = "recv"

\* All notifications are answered: nothing held by the watcher, the
\* dispatcher back in its select, the supervisor in its select.
Quiescent == evq = <<>> /\ dpc = "recv" /\ supPc = "select"

\* C12: a burst of n > 1 qualifying notifications collapses: once it is
\* answered, fewer than n generations were started in response to it.
BurstCollapses ==
    (burst /\ Quiescent) => spawns - 1 < emitted

\* A route of the discovered list matches the request's method and path.
MatchesRoute(req) ==
    \E rp \in routePaths : rp.method = req.method /\ rp.path = req.path

\* C13 as stated: a request goes over the generation's socket iff its method
\* and path match a discovered route; any other request goes to the
\* catch-all target when one is configured and is answered not-found when
\* none is.
UnmatchedGoesToCatchAll ==
    answer # "none" =>
        /\ answer = "appProxy" <=> MatchesRoute(request)
        /\ ~MatchesRoute(request) =>
              answer = (IF catchAllTarget # "" THEN "catchAll" ELSE "notFound")

\* C13 as amended: a request goes over the socket iff its method and path
\* match a discovered route; a request whose path is in no route goes to the
\* catch-all target when one is configured and is answered not-found when
\* none is; a request whose path is routed for other methods only is
\* answered method-not-allowed.
UnmatchedPathGoesToCatchAll ==
    answer # "none" =>
        LET pathKnown == \E rp \in routePaths : rp.path = request.path IN
        /\ answer = "appProxy" <=> MatchesRoute(request)
        /\ ~pathKnown =>
              answer = (IF catchAllTarget # "" THEN "catchAll" ELSE "notFound")
        /\ (pathKnown /\ ~MatchesRoute(request)) => answer = "methodNotAllowed"

\* C13 witness: with routes [(GET, /ping)] and a catch-all target, a request
\* for /other was forwarded to the catch-all target.
OtherWentToCatchAll ==
    /\ routePaths = {[method |-> "GET", path |-> "/ping"]}
    /\ catchAllTarget # ""
    /\ request.path = "/other"
    /\ answer = "catchAll"

\* C14: a generation's proxy is past its readiness gate (about to listen, or
\* listening on the external address) only if that generation's socket path
\* was created in tempDir, the creation being what the gate's watcher
\* reports; without the socket the proxy never serves.
ListensOnlyAfterSocketEvent ==
    \A g \in Gens : px[g] \in {"armed", "listening"} => up[g] \in created

\* C14 witness: a child bound its socket and its generation's proxy listens.
ProxyListensBehindGate ==
    \E g \in Gens : px[g] = "listening" /\ child[g] = "uds"

\* C15: once a generation's sub-context is cancelled, its proxy comes to
\* hold no listener on the external address and stays so: it is closed, it
\* failed to bind, or it never got past its setup.
ProxyShutDownOnCancel ==
    \A g \in Gens :
        [](CmdCtxDone(g) /\ pc[g] # "idle"
            => <>[](px[g] \in {"none", "closed", "failed"} \/ crashed))

\* C15 witness: a restart cancelled the first generation and its proxy,
\* which was past its gate, was closed by its shutdown goroutine.
FirstProxyShutDownByRestart ==
    1 \in cancelled /\ ~ctxDone /\ shut[1] /\ px[1] = "closed"

\* C16: a failure of route discovery, of proxy construction or of the
\* readiness watcher leaves the generation without a proxy, takes startCmd
\* on to ecmd.Run(), sends nothing on errChan and leaves the supervisor and
\* the process as they are.
ProxyFailureIsLocal ==
    [][\A g \in Gens :
          /\ pfail'[g] # "none" => px'[g] = "none"
          /\ (pfail[g] = "none" /\ pfail'[g] # "none") =>
                /\ pc'[g] = "built"
                /\ \A h \in Gens : pc'[h] # "sendErr"
                /\ UNCHANGED <<supVars, delivered, crashed, px>>]_vars

\* C16 witness: the exec command runs in a generation whose readiness
\* watcher could not be set up, the supervisor waiting in its select.
ExecRunsWithoutProxy ==
    \E g \in Gens :
        pfail[g] = "watcher" /\ pc[g] = "execing" /\ supPc = "select"

\* The only entry of ecmd.Env in proxy mode: TANUKIUP_UDS_PATH set to
\* tempDir/<name>.sock.
SocketEnv(g) ==
    <<[key |-> "TANUKIUP_UDS_PATH",
       val |-> tempDir \o <<"/">> \o FormatUint(fnames[g])
                  \o <<".", "s", "o", "c", "k">>]>>

\* C17: with a listen address, a started exec process has TANUKIUP_UDS_PATH
\* set to tempDir/<name>.sock of its own generation, the path its proxy
\* dials and its gate waits for; without one, the variable is not injected
\* and no proxy exists.
SocketPathInjected ==
    \A g \in Gens :
        pc[g] = "execing" =>
            IF addr # ""
              THEN /\ ~env[g].nil /\ env[g].entries = SocketEnv(g)
                   /\ up[g] = SocketEnv(g)[1].val
                   /\ px[g] # "none" => dial[g] = SocketEnv(g)[1].val
              ELSE /\ env[g].nil
                   /\ px[g] = "none" /\ dial[g] = <<>> /\ up[g] = <<>>

\* C17 witness: in proxy mode the exec process of a generation named 1 runs
\* while its proxy waits at the gate.
ExecRunsWithSocketPath ==
    \E g \in Gens :
        /\ pc[g] = "execing" /\ addr = ":8080"
        /\ fnames[g] = 1 /\ px[g] = "waiting"

\* TANUKIUP_UDS_PATH is set in the environment of generation g's child.
UdsPathSet(g) ==
    /\ ~env[g].nil
    /\ \E i \in 1..Len(env[g].entries) :
         env[g].entries[i].key = "TANUKIUP_UDS_PATH"

\* C18: a child that called ListenAndServe with the variable set and the
\* proxy not disabled serves on the socket it bound or, when the bind
\* failed, has returned an error: it never listens on addr.  With the
\* variable absent or WithDisableTanukiupProxy given it listens on addr.
ChildListensOnSocketOrAddr ==
    \A g \in Gens :
        child[g] # "none" =>
            IF UdsPathSet(g) /\ ~disableTanukiupProxy
              THEN /\ child[g] \in {"uds", "error"}
                   /\ child[g] = "uds" =>
                         \E i \in 1..Len(env[g].entries) :
                            env[g].entries[i].val \in created
              ELSE child[g] = "addr"

\* C18 witness: one child serves on its socket, another could not bind its
\* socket and returned the error.
ChildBoundAndChildFailed ==
    \E g, h \in Gens : child[g] = "uds" /\ child[h] = "error"

\* p is a directory below q.
Below(p, q) ==
    LET ps == SplitPath(Clean(p))
        qs == SplitPath(Clean(q))
    IN  Len(ps) > Len(qs) /\ SubSeq(ps, 1, Len(qs)) = qs

\* C19: a directory of the ignore set is never added to the watcher; a
\* recursive walk that comes to it enters none of its subdirectories; and the
\* .go files directly inside it are handed to searchGenerate all the same.
IgnoredNeverSubscribed ==
    \A d \in ignoreDirs :
        LET q == JoinClean(baseDir, d) IN
        /\ q \notin watched
        /\ \A v \in visited :
             Clean(v[2]) = q =>
                /\ ScanFiles(q) \subseteq scanned
                /\ \A w \in visited : w[1] = v[1] => ~Below(w[2], q)

\* C20: a generation is spawned (its generators run, its build starts) only
\* when Run has finished the walk over args.dirs.
WatchSetBeforeFirstGeneration ==
    ngen > 0 => runPc # "walk"

\* C21: when the walk over args.dirs fails, Run returns the error without
\* trying again, and once Run has returned (the run-level context not
\* cancelled by anyone) no generation is started any more.
NoGenerationAfterFailedStartup ==
    [][/\ (runPc = "walk" /\ runPc' \notin {"walk", "wait"})
            => runPc' = "closeRestart"
       /\ runPc \in {"closeRestart", "closeErr", "closeWatcher", "returned"}
            => runPc' # "walk"
       /\ runPc = "returned" => ngen' = ngen]_vars

\* The generatorInfo values the registry holds.
Enabled == {enabledGenerator[k] : k \in DOMAIN enabledGenerator}

\* C22: the registry holds every command (argument vector and directory)
\* that was registered, each under one entry: registering a command again
\* changes nothing, and no command is ever removed.
RegistryHoldsEachCommandOnce ==
    /\ Enabled = registered
    /\ Cardinality(DOMAIN enabledGenerator) = Cardinality(registered)

\* The line begins with the prefix, has four tokens or more, and its fourth
\* token is the allowed generator.
IsAllowedDirective(line) ==
    /\ Len(line) >= Len(generatePrefix)
    /\ \A i \in 1..Len(generatePrefix) : line[i] = generatePrefix[i]
    /\ Len(Fields(line)) >= 4
    /\ Fields(line)[4] = gentypescript

\* C23: a line searchGenerate reads registers a command (its tokens from the
\* second on, in the file's directory) if and only if it begins with the
\* prefix, has enough tokens and names the allowed generator; any other line
\* changes nothing and is no error: the walk goes on.
RegistersExactlyAllowedDirectives ==
    [][(Len(pending') < Len(pending) /\ ~ctxDone) =>
          LET it == Head(pending) IN
          /\ runPc' = "walk"
          /\ IF IsAllowedDirective(it.line)
               THEN /\ regCalls' = regCalls + 1
                    /\ \E k \in DOMAIN enabledGenerator' :
                         /\ enabledGenerator'[k].command = Tail(Fields(it.line))
                         /\ enabledGenerator'[k].dir = it.dir
               ELSE /\ regCalls' = regCalls
                    /\ enabledGenerator' = enabledGenerator]_vars

\* C23 witness: of two lines read, the directive was registered and the line
\* with a doubled space was passed over.
OneOfTwoLinesRegistered ==
    /\ pending = <<>>
    /\ regCalls = 1
    /\ lastScan.line = LineTwoSpaces
    /\ lastScan.outcome = "continue"
    /\ Cardinality(DOMAIN enabledGenerator) = 1

\* C24: a generation's build starts only when every generator command of the
\* registry has run to completion in that generation; and a generation whose
\* runGenerator returned an error runs neither its build nor its exec
\* command.
GeneratorsRunBeforeEveryBuild ==
    \A g \in Gens :
        /\ pc[g] \in {"building", "built", "execing"} => Enabled \subseteq gran[g]
        /\ ret[g].stage = "gen" =>
              pc[g] \in {"done", "sendErr", "panic"} /\ g \notin fs

\* The directory a configured root names: the base directory joined with the
\* root, its "..." suffix apart.
RootDir(i) == JoinClean(baseDir, TrimSuffix(dirs[i], <<".", ".", ".">>))

IsRecursive(i) == HasSuffix(dirs[i], <<".", ".", ".">>)

\* p is an ignored directory or lies inside one.
InsideIgnored(p) ==
    \E d \in ignoreDirs :
        LET q == JoinClean(baseDir, d) IN p = q \/ Below(p, q)

\* The directories the root i stands for.
RootWatchSet(i) ==
    IF IsRecursive(i)
      THEN {p \in DirTree :
               (p = RootDir(i) \/ Below(p, RootDir(i))) /\ ~InsideIgnored(p)}
      ELSE {RootDir(i)}

\* C25: the walk of a root that names a directory (not an ignored one) does
\* not fail and leaves in the watch set the directory and, for a root ending
\* in "...", every directory below it that is not inside an ignored one;
\* with nothing ignored the watch set is exactly the union over the roots.
\* This for the default base directory and for a configured one.
WatchSetCoversRoots ==
    /\ \A i \in 1..Len(dirs) :
          (i < wi \/ wpc = "wait") => RootWatchSet(i) \subseteq watched
    /\ wpc = "failed" =>
          RootDir(wi) \notin DirTree \/ InsideIgnored(RootDir(wi))
    /\ (wpc = "wait" /\ ignoreDirs = {}) =>
          watched = UNION {RootWatchSet(i) : i \in 1..Len(dirs)}

\* C26 as stated: the select's ctx.Done() case cancels the current
\* sub-context and ends the loop for good; from the cancellation of the
\* run-level context on no generation is spawned; and Run, waiting for the
\* cancellation, returns through its deferred calls.
NoGenerationAfterCancel ==
    [][/\ (supPc # "exited" /\ supPc' = "exited") =>
             ctxDone /\ (cur # 0 => cur \in cancelled')
       /\ supPc = "exited" => (supPc' = "exited" /\ ngen' = ngen)
       /\ ctxDone => ngen' = ngen
       /\ (runPc = "wait" /\ runPc' # "wait") =>
             ctxDone /\ runPc' = "closeRestart"]_vars

\* C26 as amended: the same, but a generation may be spawned between the
\* cancellation and the moment the loop takes the ctx.Done() case; such a
\* generation, like every other, starts no build and no exec command once
\* the run-level context is cancelled.
NoCommandAfterCancel ==
    [][/\ (supPc # "exited" /\ supPc' = "exited") =>
             ctxDone /\ (cur # 0 => cur \in cancelled')
       /\ supPc = "exited" => (supPc' = "exited" /\ ngen' = ngen)
       /\ ctxDone => \A g \in Gens :
             /\ pc'[g] = "building" => pc[g] = "building"
             /\ pc'[g] = "execing" => pc[g] = "execing"
       /\ (runPc = "wait" /\ runPc' # "wait") =>
             ctxDone /\ runPc' = "closeRestart"]_vars

\* C26 witness: the loop ended on the cancellation while a generation's exec
\* command ran, and a generation spawned after the cancellation returned
\* from its build step without starting the build.
LoopExitedOnCancel ==
    /\ supPc = "exited"
    /\ ctxDone
    /\ ngen = 2
    /\ 1 \in cancelled
    /\ ret[1].stage = "exec" /\ ret[1].err = "killed"
    /\ ret[2].stage = "build" /\ ret[2].err = "canceled"
    /\ runPc = "returned"

\* C28: no goroutine sends on a closed channel: the dispatcher's send on
\* restartChan and a generation task's send on errChan either complete
\* before Run's deferred close or are not attempted.
NoSendOnClosedChannel ==
    /\ ~(dpc \in {"send", "panic"} /\ restartClosed)
    /\ \A g \in Gens : ~(pc[g] = "sendErr" /\ errClosed)

\* C29: a generation after the first is spawned only when cancel() of its
\* predecessor's sub-context has been called.
PredecessorCancelledBeforeSpawn ==
    \A g \in Gens : (g > 1 /\ pc[g] # "idle") => (g - 1) \in cancelled

\* C29 witness: a restart-requested signal cancelled the first generation
\* while its exec command ran, and the second generation is spawned; the
\* run-level context is not cancelled.
SecondSpawnedAfterRestart ==
    /\ ~ctxDone
    /\ lastSignal = "restart"
    /\ pc[1] = "execing"
    /\ 1 \in cancelled
    /\ pc[2] = "gen"

NewProxyNotRefusedByPredecessor ==
    [][\A g \in Gens :
          (px[g] = "armed" /\ px'[g] = "failed" /\ up[g] \in created)
              => \A h \in Gens : px[h] # "listening"]_vars

\* C32: the registry is written only by an enableGenerator that holds the
\* lock while no runGenerator call is between its RLock and its return, no
\* runGenerator call enters or iterates while enableGenerator holds the
\* lock, and an enableGenerator that waits for the lock gets it, unless the
\* process is gone first.
RegistryLockExcludes ==
    /\ [][/\ lastScan'.outcome = "locked" =>
                \A g \in Gens : pc'[g] # "genrun"
          /\ regCalls' # regCalls =>
                /\ lastScan.outcome = "locked"
                /\ \A g \in Gens : pc[g] # "genrun" /\ pc'[g] # "genrun"
                /\ UNCHANGED <<gleft, gran>>
          /\ (\E g \in Gens : gleft'[g] # gleft[g] \/ gran'[g] # gran[g]) =>
                /\ lastScan.outcome # "locked"
                /\ UNCHANGED enabledGenerator]_vars
    /\ (lastScan.outcome = "lockWait"
           ~> (lastScan.outcome = "locked" \/ crashed))

\* C32 witness: two runGenerator calls hold the read lock at once while
\* enableGenerator waits in Lock() for a directive of the walk.
ReadersOverlapWriterWaits ==
    /\ \E g, h \in Gens : g # h /\ pc[g] = "genrun" /\ pc[h] = "genrun"
    /\ lastScan.outcome = "lockWait"
    /\ runPc = "walk"

\* C33: a generation whose sub-context is done (by the supervisor's cancel()
\* or with the run-level context) while its task still runs its generators
\* or has yet to start its build stays there or ends: it starts neither its
\* build nor its exec command, writes no output and gets no proxy.
NoBuildAfterEarlyCancel ==
    [][\A g \in Gens :
          ((ctxDone \/ g \in cancelled)
              /\ pc[g] \in {"gen", "genrun", "startCmd"}) =>
             /\ pc'[g] \in {"gen", "genrun", "startCmd", "done", "sendErr",
                            "panic"}
             /\ g \notin fs'
             /\ px'[g] = "none"]_vars

\* C33 witness: a restart cancelled the first generation while its generator
\* ran; the generator finished, startCmd returned context.Canceled from the
\* build it did not start, and the second generation is building.
CancelledDuringGeneratorsNeverBuilt ==
    /\ ~ctxDone
    /\ 1 \in cancelled
    /\ gran[1] # {}
    /\ ret[1] = [stage |-> "build", err |-> "canceled", ctxDone |-> TRUE]
    /\ 1 \notin fs
    /\ pc[2] = "building"

\* C34: the supervisor starts a generation only at startup or after its
\* select received a restart signal that the dispatcher sent, one generation
\* for each; so the generations started number at most one more than the
\* signals received, and no exit of a child starts one.
GenerationsOnlyOnRestartSignal ==
    [][/\ ngen' # ngen =>
             /\ ngen' = ngen + 1
             /\ supPc = "top" /\ supPc' = "select"
             /\ ngen = 0 \/ lastSignal = "restart"
       /\ (supPc = "select" /\ supPc' = "top" /\ lastSignal' = "restart") =>
             dpc = "send" /\ dpc' = "recv" /\ ~restartClosed
       /\ (\E g \in Gens : pc[g] = "execing" /\ pc'[g] # "execing") =>
             UNCHANGED <<ngen, supPc, skipStart>>]_vars

\* C35: in proxy mode a generation whose proxy setup succeeded has its
\* watch on the socket's directory before its exec command is launched, and
\* once its child has created the socket the event is held for the gate (or
\* the gate has passed on it), unless the gate returned on a done context.
WatchBeforeChildLaunch ==
    \A g \in Gens :
        /\ (pc[g] = "execing" /\ addr # "" /\ pfail[g] = "none")
              => px[g] # "none"
        /\ (child[g] = "uds" /\ pfail[g] = "none")
              => \/ ready[g]
                 \/ px[g] = "closed" /\ (ctxDone \/ g \in cancelled)

\* C35 witness: the child has created its socket while the gate goroutine
\* has not yet read the event, which waits in the watcher.
SocketEventHeldForGate ==
    \E g \in Gens :
        /\ child[g] = "uds" /\ up[g] \in created
        /\ px[g] = "waiting" /\ ready[g]
        /\ pc[g] = "execing"

\* C36: in proxy mode the launch of the exec command does not wait for the
\* hand-over: while route discovery or the construction of the proxy of a
\* generation is under way, startCmd can start its exec command.
ExecLaunchNotDelayedByHandover ==
    \A g \in Gens :
        pc[g] \in {"discover", "construct"} => ENABLED StartExec(g)

\* C37: Run does not fail at a configured root without the "..." suffix
\* that is an existing directory of the ignore set: its files are scanned,
\* it is not subscribed, and the loop goes on to the next root.
IgnoredRootIsNoError ==
    /\ (wpc = "failed" /\ wi <= Len(dirs)) =>
          ~(/\ ~IsRecursive(wi)
            /\ IsDir(RootDir(wi))
            /\ RootDir(wi) \in ignoreDirsMap)
    /\ \A i \in 1..Len(dirs) :
          (i < wi /\ ~IsRecursive(i) /\ RootDir(i) \in ignoreDirsMap) =>
              /\ ScanFiles(RootDir(i)) \subseteq scanned
              /\ RootDir(i) \notin watched

\* C38: in proxy mode the exec process is started in the environment it
\* would have had without proxy mode, tanukiup's own, with
\* TANUKIUP_UDS_PATH added: no inherited variable is missing.
SocketPathAddedToInheritedEnv ==
    \A g \in Gens :
        (pc[g] = "execing" /\ addr # "") =>
            Environ(env[g]) =
                Environ(NilEnv)
                    \cup {[key |-> "TANUKIUP_UDS_PATH", val |-> up[g]]}

====
